---- MODULE Spec2Model ----
(***************************************************************************)
(* A model of the UFRO assistant's retrieval-augmented answer pipeline:    *)
(* chunk normalisation (rag/data_models.py), index build and load          *)
(* (rag/embedding_system.py, rag/retrieve.py), the answer providers        *)
(* (providers/*.py), the batch evaluator (eval/quality_evaluator.py) and   *)
(* the web / CLI answer paths (web.py, app.py).                            *)
(*                                                                         *)
(* Text is modelled as a sequence of lexical tokens (each token a string): *)
(* "" is <<>>, concatenation is \o, a substring test is a test for a       *)
(* contiguous sub-sequence, and the character length of a text is the sum  *)
(* of the lengths of its tokens.  Character positions inside one token are *)
(* not modelled.                                                           *)
(***************************************************************************)
EXTENDS Integers, Sequences, FiniteSets, TLC

VARIABLES
    \* the world outside the process
    indexFile,    \* data/index.faiss: Absent, or a file holding the stored vectors
    chunksFile,   \* chunks_with_embeddings.parquet: Absent, or a file holding the rows
    env,          \* the credentials configured in the environment
    \* the index build and one Retriever object
    lastBuild,    \* history: the argument and completion of the latest build call
    retr,         \* the Retriever object: loaded flag, index, chunks (the heap objects)
    loadOutcome,  \* what the latest Retriever() construction saw and did
    loadedAfter,  \* history: lastBuild as it was when retr was loaded
    returned,     \* the list the latest Retriever.search returned (references into retr.chunks)
    earlier,      \* the list the search before that returned, with the scores seen at return
    lastSearch,   \* history: the k and the query vector of the latest search, and index.search's answer
    \* chunk construction
    made,         \* history: the two chunks created last, newest first, and how
    \* one provider object used directly
    prov,         \* the provider object, NoProvider before a construction succeeds
    lastNew,      \* what the latest provider construction did
    lastChat,     \* what the latest chat call on prov did
    call,         \* a chat call followed second by second: waiting for the backend, ended
    \* the answer pipeline: a batch evaluation, the CLI chat loop or the web app
    process,      \* which of the three this run is
    provider,     \* the provider object the CLI / the evaluator holds
    gold,         \* the gold set of the evaluation
    evalPc,       \* where run_and_save stands
    results,      \* evaluate_provider's list of EvalResult
    itemLog,      \* history: per evaluated item, how retrieval and the chat call ended
    reply,        \* what the latest web /ask or CLI query produced
    \* the outputs of run_and_save
    clock,        \* the wall clock, in whole seconds
    stamp,        \* the second run_and_save read from the clock
    outDir,       \* the files of the directory eval/: the CSVs and the JSONs
    metrics,      \* what run_and_save returned: <<>> before it returns, then <<dict>>
    runLog        \* history: per finished run, the two files as it wrote them

diskVars == <<indexFile, chunksFile>>

idxOnly == <<lastBuild, retr, loadOutcome, loadedAfter, returned, earlier, lastSearch>>

chunkOnly == <<made>>

provOnly == <<prov, lastNew, lastChat, call>>

saveOnly == <<clock, stamp, outDir, metrics, runLog>>

pipeOnly == <<process, provider, gold, evalPc, results, itemLog, reply, saveOnly>>

vars == <<indexFile, chunksFile, env, lastBuild, retr, loadOutcome, loadedAfter, returned,
          earlier, lastSearch, made, prov, lastNew, lastChat, call, process, provider, gold, evalPc, results,
          itemLog, reply, clock, stamp, outDir, metrics, runLog>>

-----------------------------------------------------------------------------
(* Bounds of the model.                                                    *)

MaxChunks == 2      \* longest chunk list handed to build_and_save_index
MaxK == 3           \* largest k handed to Retriever.search
MaxTopK == 2        \* largest k of a pipeline run (--k of app.py, k of POST /ask)
MaxGold == 2        \* longest gold set of an evaluation
MaxEvalGold == 3    \* longest gold set of an evaluation whose outputs are followed
MaxRuns == 2        \* evaluation runs that write to one eval/ directory
MaxClock == 1       \* seconds the wall clock advances
MaxDocs == 4        \* longest list of documents references are formatted from

\* the most documents handed to build_user_prompt directly
MaxPromptDocs == 2

-----------------------------------------------------------------------------
(* Text helpers (Python str operations on token sequences).                *)

IsSpace(t) == t \in {" ", "\n"}

Min(a, b) == IF a <= b THEN a ELSE b

RECURSIVE LStrip(_)
LStrip(s) == IF s # <<>> /\ IsSpace(Head(s)) THEN LStrip(Tail(s)) ELSE s

RECURSIVE RStrip(_)
RStrip(s) ==
    IF s # <<>> /\ IsSpace(s[Len(s)]) THEN RStrip(SubSeq(s, 1, Len(s) - 1)) ELSE s

Strip(s) == LStrip(RStrip(s))

\* str.lower() on the tokens of the model that hold an upper-case letter
LowerTable ==
    ("'NoneType' object has no attribute 'content'" :>
        "'nonetype' object has no attribute 'content'") @@
    ("'NoneType' object is not subscriptable" :> "'nonetype' object is not subscriptable") @@
    ("- SIEMPRE incluye las referencias al final" :> "- siempre incluye las referencias al final") @@
    (".PDF" :> ".pdf") @@
    ("404 Client Error" :> "404 client error") @@
    ("Basandome en la normativa disponible de la Universidad de La Frontera" :>
        "basandome en la normativa disponible de la universidad de la frontera") @@
    ("CONSULTA DEL USUARIO:" :> "consulta del usuario:") @@
    ("Connection error." :> "connection error.") @@
    ("Connection refused" :> "connection refused") @@
    ("Contenido exacto:" :> "contenido exacto:") @@
    ("DOCUMENTOS OFICIALES UFRO ENCONTRADOS:" :> "documentos oficiales ufro encontrados:") @@
    ("De acuerdo al Reglamento de Regimen de Estudios 2023, la nota minima de aprobacion es" :>
        "de acuerdo al reglamento de regimen de estudios 2023, la nota minima de aprobacion es") @@
    ("Documento" :> "documento") @@
    ("Documentos-varios-UFRO" :> "documentos-varios-ufro") @@
    ("El Reglamento de Actividad de Titulacion establece" :>
        "el reglamento de actividad de titulacion establece") @@
    ("Error HTTP 404 con DeepSeek:" :> "error http 404 con deepseek:") @@
    ("Error code: 400" :> "error code: 400") @@
    ("Error code: 401" :> "error code: 401") @@
    ("Error code: 404" :> "error code: 404") @@
    ("Error code: 429" :> "error code: 429") @@
    ("Error code: 500" :> "error code: 500") @@
    ("Error code: 503" :> "error code: 503") @@
    ("Error de autenticacion (401): Verifica tu DEEPSEEK_API_KEY" :>
        "error de autenticacion (401): verifica tu deepseek_api_key") @@
    ("Error de conexion con DeepSeek - verifica tu internet" :>
        "error de conexion con deepseek - verifica tu internet") @@
    ("Error de conexion con DeepSeek:" :> "error de conexion con deepseek:") @@
    ("Error en la solicitud (400):" :> "error en la solicitud (400):") @@
    ("Error inesperado con DeepSeek:" :> "error inesperado con deepseek:") @@
    ("Error interno del servidor (500) en DeepSeek" :>
        "error interno del servidor (500) en deepseek") @@
    ("Exceeded 30 redirects." :> "exceeded 30 redirects.") @@
    ("Expecting value" :> "expecting value") @@
    ("FRAGMENTO" :> "fragmento") @@
    ("Fin" :> "fin") @@
    ("Fuente:" :> "fuente:") @@
    ("INSTRUCCIONES:" :> "instrucciones:") @@
    ("La" :> "la") @@
    ("N/A" :> "n/a") @@
    ("No se encontraron documentos relevantes en la base de datos de normativa UFRO." :>
        "no se encontraron documentos relevantes en la base de datos de normativa ufro.") @@
    ("Nota" :> "nota") @@
    ("Pagina:" :> "pagina:") @@
    ("Plan" :> "plan") @@
    ("Pregunta:" :> "pregunta:") @@
    ("REFERENCIAS:" :> "referencias:") @@
    ("RESPUESTA:" :> "respuesta:") @@
    ("Rate limit (429): Demasiadas solicitudes a DeepSeek" :>
        "rate limit (429): demasiadas solicitudes a deepseek") @@
    ("Read timed out." :> "read timed out.") @@
    ("Referencias:" :> "referencias:") @@
    ("Reg" :> "reg") @@
    ("Reglamento-Actividad-de-Titulacion" :> "reglamento-actividad-de-titulacion") @@
    ("Reglamento-de-Admision-para-carreras-de-Pregrado" :>
        "reglamento-de-admision-para-carreras-de-pregrado") @@
    ("Reglamento-de-Obligaciones-Financieras" :> "reglamento-de-obligaciones-financieras") @@
    ("Reglamento-de-Regimen-de-Estudios-2023" :> "reglamento-de-regimen-de-estudios-2023") @@
    ("Relevancia:" :> "relevancia:") @@
    ("Request timed out." :> "request timed out.") @@
    ("Respuesta inesperada de DeepSeek:" :> "respuesta inesperada de deepseek:") @@
    ("Respuesta vacia de DeepSeek:" :> "respuesta vacia de deepseek:") @@
    ("Respuesta: No encontre esta informacion especifica en la normativa disponible." :>
        "respuesta: no encontre esta informacion especifica en la normativa disponible.") @@
    ("Segun el Reglamento de Admision para carreras de Pregrado" :>
        "segun el reglamento de admision para carreras de pregrado") @@
    ("Segun el Reglamento de Obligaciones Financieras" :>
        "segun el reglamento de obligaciones financieras") @@
    ("Servicio no disponible (503) en DeepSeek" :> "servicio no disponible (503) en deepseek") @@
    ("Timeout despues de 60 s con DeepSeek" :> "timeout despues de 60 s con deepseek") @@
    ("[ChatGPT deshabilitado: falta API key]" :> "[chatgpt deshabilitado: falta api key]") @@
    ("[Error proveedor]" :> "[error proveedor]") @@
    ("MATRICULA" :> "matricula") @@
    ("Pago" :> "pago")

LowerTok(t) == IF t \in DOMAIN LowerTable THEN LowerTable[t] ELSE t

UpperFirstTok(t) ==
    CASE t = "reg" -> "Reg"
      [] t = "plan" -> "Plan"
      [] t = "fin" -> "Fin"
      [] t = "la" -> "La"
      [] t = "nota" -> "Nota"
      [] OTHER -> t

Lower(s) == [i \in 1..Len(s) |-> LowerTok(s[i])]

\* str.capitalize(): first character upper-cased, the rest lower-cased
Capitalize(s) ==
    [i \in 1..Len(s) |-> IF i = 1 THEN UpperFirstTok(LowerTok(s[i])) ELSE LowerTok(s[i])]

\* needle in hay
Contains(hay, needle) ==
    \E i \in 0..(Len(hay) - Len(needle)) : SubSeq(hay, i + 1, i + Len(needle)) = needle

\* s.replace(pat, rep), pat non-empty: leftmost, non-overlapping
RECURSIVE ReplaceAll(_, _, _)
ReplaceAll(s, pat, rep) ==
    IF Len(s) < Len(pat) \/ pat = <<>> THEN s
    ELSE IF SubSeq(s, 1, Len(pat)) = pat
         THEN rep \o ReplaceAll(SubSeq(s, Len(pat) + 1, Len(s)), pat, rep)
         ELSE <<Head(s)>> \o ReplaceAll(Tail(s), pat, rep)

\* len(s), in characters
RECURSIVE StrLen(_)
StrLen(s) == IF s = <<>> THEN 0 ELSE Len(Head(s)) + StrLen(Tail(s))

\* os.path.basename(p): what follows the last "/"
RECURSIVE Basename(_)
Basename(p) == IF \E i \in 1..Len(p) : p[i] = "/" THEN Basename(Tail(p)) ELSE p

-----------------------------------------------------------------------------
(* DocumentChunk (rag/data_models.py).                                     *)

\* The score attribute of a chunk object: <<>> while the object has none,
\* <<v>> once chunk.score = v was executed.
NoScore == <<>>

ScoreOf(v) == <<v>>

\* the digest of hashlib.md5 over doc_id|page|content, cut to 16 hex digits:
\* represented by the hashed text itself (no collisions between distinct texts)
ChunkIdOf(doc_id, page, content) ==
    <<"chunk-">> \o doc_id \o <<"|", ToString(page), "|">> \o content

TitleOf(source) ==
    LET name == IF source # <<>> /\ LowerTok(source[Len(source)]) = ".pdf"
                THEN SubSeq(source, 1, Len(source) - 1) ELSE source
    IN  Capitalize(Strip(ReplaceAll(ReplaceAll(name, <<"_">>, <<" ">>), <<"-">>, <<" ">>)))

\* the dataclass constructor followed by __post_init__
DocumentChunk(content, source, page, chunk_id, doc_id, title, url, vigencia) ==
    LET src == IF source # <<>> THEN Strip(Basename(source)) ELSE source
        did == IF doc_id = <<>> /\ src # <<>> THEN src ELSE doc_id
        ttl == IF title = <<>> /\ src # <<>> THEN TitleOf(src) ELSE title
        cid == IF chunk_id = <<>> THEN ChunkIdOf(did, page, content) ELSE chunk_id
    IN  [content |-> content, source |-> src, page |-> page, chunk_id |-> cid,
         doc_id |-> did, title |-> ttl, url |-> url, vigencia |-> vigencia,
         chunk_size |-> StrLen(content), overlap |-> 0, score |-> NoScore]

\* The chunks the build is fed with: already constructed DocumentChunks.
\* The first from a file path; the second with no source and a caller-given doc_id.
ChunkPool ==
    << DocumentChunk(<<"la", " ", "matricula">>, <<"data", "/", "raw", "/", "reg", ".pdf">>,
                     15, <<>>, <<>>, <<>>, <<>>, <<>>),
       DocumentChunk(<<"nota", " ", "minima">>, <<>>,
                     0, <<>>, <<"docs", "/", "plan">>, <<>>, <<>>, <<"2023">>) >>

QueryPool == { <<"matricula">>, <<"nota">> }

\* The page argument of from_file_fragment: <<n>> for the int n, <<>> for None.
NoPage == <<>>

\* str(page) of that argument
StrOfPage(page) == IF page = NoPage THEN "None" ELSE ToString(page[1])

\* int(page or 0)
IntOrZero(page) == IF page = NoPage THEN 0 ELSE page[1]

\* DocumentChunk.from_file_fragment; title, doc_id and chunk_id are <<>> when
\* the caller leaves them out
from_file_fragment(file_path, page, content, title, url, vigencia, doc_id, chunk_id) ==
    LET source == Strip(Basename(file_path))
        did == IF doc_id # <<>> THEN doc_id ELSE source
        cid == IF chunk_id = <<>>
               THEN <<"chunk-">> \o did \o <<"|", StrOfPage(page), "|">> \o content
               ELSE chunk_id
        stem == IF title # <<>> THEN title
                ELSE IF source # <<>> /\ LowerTok(source[Len(source)]) = ".pdf"
                     THEN SubSeq(source, 1, Len(source) - 1) ELSE source
        ttl == Capitalize(Strip(ReplaceAll(ReplaceAll(stem, <<"_">>, <<" ">>), <<"-">>, <<" ">>)))
    IN  DocumentChunk(content, source, IntOrZero(page), cid, did, ttl, url, vigencia)

\* data.get(key, default)
Get(data, key, default) == IF key \in DOMAIN data THEN data[key] ELSE default

\* DocumentChunk.from_dict
from_dict(data) ==
    DocumentChunk(Get(data, "content", Get(data, "text", <<>>)), Get(data, "source", <<>>),
                  Get(data, "page", 0), Get(data, "chunk_id", <<>>), Get(data, "doc_id", <<>>),
                  Get(data, "title", <<>>), Get(data, "url", <<>>), Get(data, "vigencia", <<>>))

\* ingest._make_chunk_id
make_chunk_id(doc_id, page, content) == ChunkIdOf(doc_id, page, content)

\* one record of ingest(): a page of the file data/raw/<name>
IngestRecord(name, page, text) ==
    [doc_id |-> name, title |-> TitleOf(name), content |-> text, page |-> page,
     chunk_id |-> make_chunk_id(name, page, text), url |-> <<>>, vigencia |-> <<>>]

\* the inputs chunks are created from
ContentPool == { <<"la", " ", "matricula">>, <<"nota", " ", "minima">> }

PathPool == { <<>>, <<"data", "/", "raw", "/", "reg", ".pdf">> }

DocIdPool == { <<>>, <<"docs", "/", "plan">> }

ChunkIdPool == { <<>>, <<"c1">> }

PagePool == { 0, 15 }

PageArgPool == { NoPage } \cup { <<p>> : p \in PagePool }

DictPool ==
    << [content |-> <<"la", " ", "matricula">>,
        source |-> <<"data", "/", "raw", "/", "reg", ".pdf">>, page |-> 15],
       [text |-> <<"nota", " ", "minima">>, doc_id |-> <<"docs", "/", "plan">>],
       [content |-> <<"la", " ", "matricula">>, source |-> <<"reg", ".pdf">>,
        doc_id |-> <<"reg", ".pdf">>, chunk_id |-> <<"c1">>, page |-> 0],
       [content |-> <<"la", " ", "matricula">>, doc_id |-> <<"reg", ".pdf">>, page |-> 0] >>

NoneMade == <<>>

ChunkIdle == made = NoneMade

\* what is kept of a created chunk: how it was made, whether the caller gave
\* the chunk_id, and its stored fields
MadeOf(via, given, c, source) ==
    [via |-> via, given |-> given, source |-> source, doc_id |-> c.doc_id,
     page |-> c.page, content |-> c.content, chunk_id |-> c.chunk_id]

Remember(m) == made' = <<m>> \o SubSeq(made, 1, Min(1, Len(made)))

\* DocumentChunk(content, source, page=..., chunk_id=..., doc_id=...)
NewChunk(content, source, page, chunk_id, doc_id) ==
    /\ LET c == DocumentChunk(content, source, page, chunk_id, doc_id, <<>>, <<>>, <<>>)
       IN  Remember(MadeOf("constructor", chunk_id # <<>>, c, c.source))
    /\ UNCHANGED <<diskVars, env, idxOnly, provOnly, pipeOnly>>

\* DocumentChunk.from_dict(data)
FromDict(data) ==
    /\ LET c == from_dict(data)
       IN  Remember(MadeOf("from_dict", Get(data, "chunk_id", <<>>) # <<>>, c, c.source))
    /\ UNCHANGED <<diskVars, env, idxOnly, provOnly, pipeOnly>>

\* DocumentChunk.from_file_fragment(file_path, page, content, doc_id=..., chunk_id=...)
FromFileFragment(file_path, page, content, doc_id, chunk_id) ==
    /\ LET c == from_file_fragment(file_path, page, content, <<>>, <<>>, <<>>, doc_id, chunk_id)
       IN  Remember(MadeOf("from_file_fragment", chunk_id # <<>>, c, c.source))
    /\ UNCHANGED <<diskVars, env, idxOnly, provOnly, pipeOnly>>

\* ingest() appends the record of one page; a record has no source field
Ingest(name, page, text) ==
    /\ Remember(MadeOf("ingest", FALSE, IngestRecord(name, page, text), <<>>))
    /\ UNCHANGED <<diskVars, env, idxOnly, provOnly, pipeOnly>>

-----------------------------------------------------------------------------
(* EmbeddingSystem (rag/embedding_system.py).  A vector is a direction and *)
(* a magnitude; magnitude UnitMag is unit L2 norm.  The inner product of   *)
(* two vectors is the cosine of their directions (in hundredths) times the *)
(* magnitudes.                                                             *)

UnitMag == 1

\* SentenceTransformer.encode on one text, before any normalisation: the norm
\* is the one the configured model gives, which need not be 1
EncodeRaw(text) ==
    CASE Contains(text, <<"matricula">>) -> [dir |-> 0, mag |-> 1]
      [] Contains(text, <<"nota">>)      -> [dir |-> 1, mag |-> 2]
      [] OTHER                           -> [dir |-> 2, mag |-> 1]

NormalizeL2(v) == [v EXCEPT !.mag = UnitMag]

embed_text(text) == EncodeRaw(text)

embed_texts(texts) == [i \in 1..Len(texts) |-> NormalizeL2(EncodeRaw(texts[i]))]

Cosine(d1, d2) == IF d1 = d2 THEN 100 ELSE IF d1 + d2 = 2 THEN 0 ELSE 50

InnerProduct(a, b) == Cosine(a.dir, b.dir) * a.mag * b.mag

\* the vectors build_and_save_index adds to the IndexFlatIP, in order
IndexVectors(chunks) ==
    LET embs == embed_texts([i \in 1..Len(chunks) |-> chunks[i].content])
    IN  [i \in 1..Len(embs) |-> NormalizeL2(embs[i])]

\* (mutant) the table is written newest chunk first
ChunkRows_Reversed(chunks) ==
    [i \in 1..Len(chunks) |->
        LET c == chunks[Len(chunks) + 1 - i]
        IN  [doc_id |-> c.doc_id, title |-> c.title, content |-> c.content,
             page |-> c.page, chunk_id |-> c.chunk_id, url |-> c.url,
             vigencia |-> c.vigencia]]

\* the rows build_and_save_index writes to the parquet table, in order
ChunkRows(chunks) ==
    [i \in 1..Len(chunks) |->
        [doc_id |-> chunks[i].doc_id, title |-> chunks[i].title,
         content |-> chunks[i].content, page |-> chunks[i].page,
         chunk_id |-> chunks[i].chunk_id, url |-> chunks[i].url,
         vigencia |-> chunks[i].vigencia]]

-----------------------------------------------------------------------------
(* The two persisted artifacts and the build.                              *)

Absent == [exists |-> FALSE, data |-> <<>>]

FileOf(data) == [exists |-> TRUE, data |-> data]

\* every chunk list of length 0..MaxChunks over the pool
ChunkLists ==
    UNION { [1..n -> {ChunkPool[i] : i \in 1..Len(ChunkPool)}] : n \in 0..MaxChunks }

NoBuild == [chunks |-> <<>>, complete |-> FALSE, error |-> "none"]

\* Index builds are serialised against query traffic (the build is a script of
\* its own, run while no Retriever is alive).
\* build_and_save_index run to its end
BuildAndSaveIndex(chunks) ==
    /\ ~retr.loaded
    /\ chunks # <<>>
    /\ indexFile' = FileOf(IndexVectors(chunks))
    /\ chunksFile' = FileOf(ChunkRows(chunks))
    /\ lastBuild' = [chunks |-> chunks, complete |-> TRUE, error |-> "none"]
    /\ UNCHANGED <<retr, loadOutcome, loadedAfter, returned, earlier, lastSearch>>
    /\ UNCHANGED <<env, chunkOnly, provOnly, pipeOnly>>

\* build_and_save_index on an empty list: raises ValueError, writes nothing
BuildRejected ==
    /\ ~retr.loaded
    /\ lastBuild' = [lastBuild EXCEPT !.error = "ValueError"]
    /\ UNCHANGED <<indexFile, chunksFile, retr, loadOutcome, loadedAfter, returned, earlier, lastSearch>>
    /\ UNCHANGED <<env, chunkOnly, provOnly, pipeOnly>>

\* build_and_save_index interrupted after faiss.write_index and before to_parquet
BuildInterrupted(chunks) ==
    /\ ~retr.loaded
    /\ chunks # <<>>
    /\ indexFile' = FileOf(IndexVectors(chunks))
    /\ lastBuild' = [chunks |-> chunks, complete |-> FALSE, error |-> "interrupted"]
    /\ UNCHANGED <<chunksFile, retr, loadOutcome, loadedAfter, returned, earlier, lastSearch>>
    /\ UNCHANGED <<env, chunkOnly, provOnly, pipeOnly>>

-----------------------------------------------------------------------------
(* Retriever (rag/retrieve.py).                                            *)

\* (mutant) the test fails the load only when both artifacts are gone
ArtifactsMissing_BothOnly(idxF, chF) == ~idxF.exists /\ ~chF.exists

\* the existence test that opens _load_index_and_chunks
ArtifactsMissing(idxF, chF) == ~idxF.exists \/ ~chF.exists

\* one parquet row mapped to a DocumentChunk
LoadChunk(row) ==
    DocumentChunk(row.content, row.doc_id, row.page, row.chunk_id, row.doc_id,
                  row.title, row.url, row.vigencia)

\* _load_index_and_chunks: the error it raises ("none": returns), the files it
\* has read by then, and the index and chunks it has set
LoadIndexAndChunks(idxF, chF) ==
    IF ArtifactsMissing(idxF, chF)
    THEN [error |-> "FileNotFoundError", read |-> {}, index |-> <<>>, chunks |-> <<>>]
    ELSE IF ~idxF.exists       \* faiss.read_index on a missing file
    THEN [error |-> "RuntimeError", read |-> {}, index |-> <<>>, chunks |-> <<>>]
    ELSE IF ~chF.exists        \* pd.read_parquet on a missing file
    THEN [error |-> "FileNotFoundError", read |-> {"index"}, index |-> idxF.data, chunks |-> <<>>]
    ELSE [error |-> "none", read |-> {"index", "chunks"}, index |-> idxF.data,
          chunks |-> [i \in 1..Len(chF.data) |-> LoadChunk(chF.data[i])]]

NoRetriever == [loaded |-> FALSE, index |-> <<>>, chunks |-> <<>>]

NoSearch == [called |-> FALSE, k |-> 0, query_vec |-> NormalizeL2(EncodeRaw(<<>>)), hits |-> <<>>]

NoLoad == [called |-> FALSE, index_exists |-> FALSE, chunks_exists |-> FALSE,
           error |-> "none", read |-> {}]

\* Retriever(): the constructor; when it raises the caller holds no Retriever
NewRetriever ==
    LET r == LoadIndexAndChunks(indexFile, chunksFile)
    IN  /\ retr' = IF r.error = "none"
                   THEN [loaded |-> TRUE, index |-> r.index, chunks |-> r.chunks]
                   ELSE NoRetriever
        /\ loadOutcome' = [called |-> TRUE, index_exists |-> indexFile.exists,
                            chunks_exists |-> chunksFile.exists,
                            error |-> r.error, read |-> r.read]
        /\ loadedAfter' = IF r.error = "none" THEN lastBuild ELSE NoBuild
        /\ returned' = <<>>
        /\ earlier' = <<>>
        /\ lastSearch' = NoSearch
        /\ UNCHANGED <<indexFile, chunksFile, lastBuild>>
        /\ UNCHANGED <<env, chunkOnly, provOnly, pipeOnly>>

embed_query(query) == embed_text(query)

NoHitScore == "lowest"    \* the score faiss pairs with the position -1

\* (mutant) the library lists the n first positions in storage order
TopOrders_StorageOrder(vecs, q, n) == { [j \in 1..n |-> j] }

\* the orders in which IndexFlatIP may list the n best positions (1-based here):
\* non-increasing inner product, nothing better left out; the order of equal
\* scores is the library's choice
TopOrders(vecs, q, n) ==
    { p \in [1..n -> 1..Len(vecs)] :
        /\ \A a, b \in 1..n :
              a < b => /\ p[a] # p[b]
                       /\ InnerProduct(vecs[p[a]], q) >= InnerProduct(vecs[p[b]], q)
        /\ \A i \in 1..Len(vecs) :
              (\A a \in 1..n : p[a] # i) =>
                  \A a \in 1..n : InnerProduct(vecs[p[a]], q) >= InnerProduct(vecs[i], q) }

\* index.search(query_vec, k): k (position, score) pairs, positions 0-based,
\* padded with position -1 when the index holds fewer than k vectors
FaissSearch(vecs, q, k) ==
    LET n == Min(k, Len(vecs))
    IN  { [j \in 1..k |->
              IF j <= n THEN [idx |-> p[j] - 1, score |-> InnerProduct(vecs[p[j]], q)]
                        ELSE [idx |-> -1, score |-> NoHitScore]] :
          p \in TopOrders(vecs, q, n) }

\* self.chunks[idx]: the place of Python's position idx in a sequence of n
\* chunks; a negative position counts from the end of the list
ChunkAt(idx, n) == IF idx < 0 THEN n + idx + 1 ELSE idx + 1

\* (mutant) only the positions past the end are skipped
SkipPosition_PastEndOnly(idx, n) == idx >= n

\* the guard of the loop: a position that is no position of self.chunks
SkipPosition(idx, n) == idx < 0 \/ idx >= n

\* the loop of Retriever.search over zip(I[0], D[0]); a result is a reference
\* (ref) to the chunk object held in chunks, not a copy of it
RECURSIVE SearchLoop(_, _, _)
SearchLoop(hits, chunks, found) ==
    IF hits = <<>> THEN [chunks |-> chunks, results |-> found]
    ELSE LET h == Head(hits)
             at == ChunkAt(h.idx, Len(chunks))
         IN  IF SkipPosition(h.idx, Len(chunks))
             THEN SearchLoop(Tail(hits), chunks, found)
             ELSE SearchLoop(Tail(hits),
                             [chunks EXCEPT ![at].score = ScoreOf(h.score)],
                             Append(found, [ref |-> at, idx |-> h.idx]))

\* Retriever.search(query, k)
Search(query, k) ==
    /\ retr.loaded
    /\ \E query_vec \in {embed_query(query)} :
       \E hits \in FaissSearch(retr.index, query_vec, k) :
          LET out == SearchLoop(hits, retr.chunks, <<>>)
          IN  /\ retr' = [retr EXCEPT !.chunks = out.chunks]
              /\ returned' = out.results
              /\ lastSearch' = [called |-> TRUE, k |-> k, query_vec |-> query_vec,
                                hits |-> hits]
    /\ earlier' = [j \in 1..Len(returned) |->
                      [ref |-> returned[j].ref, score |-> retr.chunks[returned[j].ref].score]]
    /\ UNCHANGED <<indexFile, chunksFile, lastBuild, loadOutcome, loadedAfter>>
    /\ UNCHANGED <<env, chunkOnly, provOnly, pipeOnly>>

\* the Retriever goes out of scope (retrieve() returns, the process ends)
DropRetriever ==
    /\ retr.loaded
    /\ retr' = NoRetriever
    /\ loadedAfter' = NoBuild
    /\ returned' = <<>>
    /\ earlier' = <<>>
    /\ lastSearch' = NoSearch
    /\ UNCHANGED <<indexFile, chunksFile, lastBuild, loadOutcome>>
    /\ UNCHANGED <<env, chunkOnly, provOnly, pipeOnly>>

\* The environment: data/index.faiss is deleted (the artifacts are plain files;
\* app.py and web.py test the existence of each on its own).
IndexFileDeleted ==
    /\ ~retr.loaded
    /\ indexFile.exists
    /\ indexFile' = Absent
    /\ lastBuild' = [lastBuild EXCEPT !.complete = FALSE]
    /\ UNCHANGED <<chunksFile, retr, loadOutcome, loadedAfter, returned, earlier, lastSearch>>
    /\ UNCHANGED <<env, chunkOnly, provOnly, pipeOnly>>

-----------------------------------------------------------------------------
(* Prompts (rag/prompts.py).  Fixed texts are written without accents; a   *)
(* fixed sentence is one token.                                            *)

\* the opening sentence and the rules of SYSTEM_PROMPT
SYSTEM_PROMPT ==
    <<"Eres un asistente especializado en normativa y reglamentos de la Universidad de La Frontera (UFRO).",
      "\n", "\n", "INSTRUCCIONES ESPECIFICAS:", "\n",
      "FORMATO DE REFERENCIAS:", "\n", "Referencias:", "\n", "[Nombre-del-documento, p.XX]">>

SPECIALIZED_PROMPTS ==
    [matricula  |-> <<"Especializate en consultas sobre matricula y admision.">>,
     notas      |-> <<"Especializate en consultas sobre notas y evaluaciones.">>,
     financiero |-> <<"Especializate en consultas sobre aspectos financieros.">>,
     titulo     |-> <<"Especializate en consultas sobre titulacion.">>]

\* called with no argument by every caller: query_type = "general"
get_system_prompt(query_type) ==
    IF query_type \in DOMAIN SPECIALIZED_PROMPTS
    THEN SYSTEM_PROMPT \o <<"\n", "\n", "ENFOQUE ESPECIALIZADO:", "\n">>
                       \o SPECIALIZED_PROMPTS[query_type]
    ELSE SYSTEM_PROMPT

\* the keywords of detect_query_type; an accented letter is written with a
\* following apostrophe
keywords ==
    [matricula  |-> <<"matricula", "matri'cula", "inscripcion", "inscripcio'n", "admision",
                      "admisio'n", "postular", "ingreso">>,
     notas      |-> <<"nota", "notas", "calificacion", "calificacio'n", "promedio", "examen",
                      "evaluacion", "evaluacio'n", "reprobar", "aprobar">>,
     financiero |-> <<"arancel", "pago", "beca", "beneficio", "financiero", "dinero", "costo",
                      "precio", "descuento">>,
     titulo     |-> <<"titulo", "ti'tulo", "titulacion", "titulacio'n", "tesis", "memoria",
                      "graduacion", "graduacio'n", "grado">>]

\* (mutant) the categories are tried in another order
KeywordOrder_NotasFirst == <<"notas", "matricula", "financiero", "titulo">>

\* keywords.items(): the order in which the dictionary literal lists its keys
KeywordOrder == <<"matricula", "notas", "financiero", "titulo">>

\* any(word in query_lower for word in words)
AnyWordIn(words, query_lower) ==
    \E w \in 1..Len(words) : Contains(query_lower, <<words[w]>>)

\* the loop of detect_query_type over the categories still to try
RECURSIVE DetectLoop(_, _)
DetectLoop(order, query_lower) ==
    IF order = <<>> THEN "general"
    ELSE IF AnyWordIn(keywords[Head(order)], query_lower) THEN Head(order)
    ELSE DetectLoop(Tail(order), query_lower)

detect_query_type(query) == DetectLoop(KeywordOrder, Lower(query))

\* "=" * 50
Delimiter == "=================================================="

\* f"{score:.3f}" of a score kept in hundredths
FormatScore(v) ==
    <<ToString(v \div 100), ".", ToString((v % 100) \div 10), ToString(v % 10), "0">>

\* the context dictionary the callers build from a returned chunk
ContextDoc(chunk) ==
    [content |-> chunk.content, source |-> chunk.source, page |-> chunk.page,
     score |-> chunk.score]

\* the f-string of one fragment, i counted from 1
ContextPart(i, d) ==
    LET doc_name == ReplaceAll(ReplaceAll(ReplaceAll(d.source, <<".pdf">>, <<>>),
                                          <<"data", "/", "raw", "/">>, <<>>),
                               <<"/">>, <<>>)
    IN  <<"FRAGMENTO", " ", ToString(i), ":", "\n", "Fuente:", " ">> \o doc_name
        \o <<"\n", "Pagina:", " ", ToString(d.page), "\n", "Relevancia:", " ">>
        \o FormatScore(d.score[1])
        \o <<"\n", "Contenido exacto:", "\n", "\"">> \o d.content \o <<"\"", "\n">>

\* sep.join(parts)
RECURSIVE Join(_, _)
Join(sep, parts) ==
    IF parts = <<>> THEN <<>>
    ELSE IF Len(parts) = 1 THEN parts[1]
    ELSE parts[1] \o sep \o Join(sep, Tail(parts))

\* (mutant) the context layout is used whether or not there are documents
build_user_prompt_AlwaysContext(query, docs) ==
    LET context_parts == [i \in 1..Len(docs) |-> ContextPart(i, docs[i])]
        context == <<"\n", Delimiter>> \o Join(<<"\n">>, context_parts)
    IN  <<"CONSULTA DEL USUARIO:", " ">> \o query
        \o <<"\n", "\n", "DOCUMENTOS OFICIALES UFRO ENCONTRADOS:">> \o context
        \o <<"\n", "\n", "INSTRUCCIONES:", "\n",
             "- SIEMPRE incluye las referencias al final", "\n", "\n", "RESPUESTA:">>

build_user_prompt(query, docs) ==
    IF docs = <<>>
    THEN <<"Pregunta:", " ">> \o query
         \o <<"\n", "\n",
              "No se encontraron documentos relevantes en la base de datos de normativa UFRO.",
              "\n", "\n",
              "Respuesta: No encontre esta informacion especifica en la normativa disponible.">>
    ELSE LET context_parts == [i \in 1..Len(docs) |-> ContextPart(i, docs[i])]
             context == <<"\n", Delimiter>> \o Join(<<"\n">>, context_parts)
         IN  <<"CONSULTA DEL USUARIO:", " ">> \o query
             \o <<"\n", "\n", "DOCUMENTOS OFICIALES UFRO ENCONTRADOS:">> \o context
             \o <<"\n", "\n", "INSTRUCCIONES:", "\n",
                  "- SIEMPRE incluye las referencias al final", "\n", "\n", "RESPUESTA:">>

\* (mutant) the system prompt follows the category detected in the query
Messages_ByCategory(query, docs) ==
    <<[role |-> "system", content |-> get_system_prompt(detect_query_type(query))],
      [role |-> "user", content |-> build_user_prompt(query, docs)]>>

\* the message list every caller hands to chat
Messages(query, docs) ==
    <<[role |-> "system", content |-> get_system_prompt("general")],
      [role |-> "user", content |-> build_user_prompt(query, docs)]>>

\* repr of a string body: a newline is shown as backslash-n
Repr(s) == [i \in 1..Len(s) |-> IF s[i] = "\n" THEN "\\n" ELSE s[i]]

\* str(messages)
StrOfMessages(messages) ==
    <<"[">> \o Join(<<", ">>,
                    [i \in 1..Len(messages) |->
                        <<"{'role': '", messages[i].role, "', 'content': '">>
                        \o Repr(messages[i].content) \o <<"'}">>])
    \o <<"]">>

\* _approx_tokens (app.py, web.py, eval/quality_evaluator.py)
Max(a, b) == IF a >= b THEN a ELSE b

ApproxTokens(text) == Max(1, StrLen(text) \div 4)

-----------------------------------------------------------------------------
(* Providers (providers/chatgpt.py, providers/deepseek.py,                 *)
(* providers/mock.py).  Costs are in units of 1e-8 USD.                    *)

\* the credentials the process finds in its environment, and DEEPSEEK_MODEL
Environments ==
    [openai_key : BOOLEAN, deepseek_key : BOOLEAN,
     deepseek_model : {"deepseek-chat", "deepseek-v3"}]

NoCredentials ==
    [openai_key |-> FALSE, deepseek_key |-> FALSE, deepseek_model |-> "deepseek-chat"]

NoProvider == [class |-> "none", model |-> "", api_key |-> FALSE]

\* ChatGPTProvider(): never raises; client is None exactly when api_key is empty
ChatGPTProvider(e) ==
    [error |-> "none",
     obj |-> [class |-> "ChatGPTProvider", model |-> "openai/gpt-4.1-mini",
              api_key |-> e.openai_key]]

\* DeepSeekProvider(): raises ValueError when DEEPSEEK_API_KEY is not set
DeepSeekProvider(e) ==
    IF ~e.deepseek_key
    THEN [error |-> "ValueError", obj |-> NoProvider]
    ELSE [error |-> "none",
          obj |-> [class |-> "DeepSeekProvider", model |-> e.deepseek_model,
                   api_key |-> TRUE]]

MockProvider ==
    [error |-> "none",
     obj |-> [class |-> "MockProvider", model |-> "mock-model", api_key |-> FALSE]]

\* What the remote service does with one request.
Outcomes ==
    {"timeout", "connection_error", "too_many_redirects",
     "http_401", "http_400", "http_429", "http_500", "http_503", "http_404",
     "not_json", "no_choices", "no_message", "null_content",
     "text_with_refs", "text_plain", "text_empty"}

\* the content of a completion that carries one
CompletionText(o) ==
    CASE o = "text_with_refs" ->
            <<"la", " ", "nota", " ", "minima", " ", "es", " ", "4.0", "\n", "\n",
              "Referencias:", "\n", "[", "plan", ", p.", "23", "]">>
      [] o = "text_plain" -> <<"la", " ", "nota", " ", "minima", " ", "es", " ", "4.0">>
      [] OTHER -> <<>>

\* what a chat call hands to its caller
Returned(type, text) ==
    [kind |-> "return", type |-> type, text |-> text, exc |-> "none", msg |-> <<>>]

Raised(exc, msg) ==
    [kind |-> "raise", type |-> "none", text |-> <<>>, exc |-> exc, msg |-> msg]

\* the body of the try block of DeepSeekProvider.chat
DeepSeekTry(o) ==
    CASE o = "timeout" -> Raised("requests.Timeout", <<"Read timed out.">>)
      [] o = "connection_error" ->
            Raised("requests.ConnectionError", <<"Connection refused">>)
      [] o = "too_many_redirects" ->
            Raised("requests.TooManyRedirects", <<"Exceeded 30 redirects.">>)
      [] o = "http_401" ->
            Raised("RuntimeError",
                   <<"Error de autenticacion (401): Verifica tu DEEPSEEK_API_KEY">>)
      [] o = "http_400" ->
            Raised("RuntimeError", <<"Error en la solicitud (400):", " ", "bad request">>)
      [] o = "http_429" ->
            Raised("RuntimeError", <<"Rate limit (429): Demasiadas solicitudes a DeepSeek">>)
      [] o = "http_500" ->
            Raised("RuntimeError", <<"Error interno del servidor (500) en DeepSeek">>)
      [] o = "http_503" ->
            Raised("RuntimeError", <<"Servicio no disponible (503) en DeepSeek">>)
      [] o = "http_404" ->
            Raised("requests.HTTPError", <<"404 Client Error">>)
      [] o = "not_json" ->
            Raised("requests.JSONDecodeError", <<"Expecting value">>)
      [] o = "no_choices" ->
            Raised("RuntimeError", <<"Respuesta vacia de DeepSeek:", " ", "{}">>)
      [] o = "no_message" -> Raised("KeyError", <<"'message'">>)
      [] o = "null_content" -> Returned("NoneType", <<>>)
      [] OTHER -> Returned("str", CompletionText(o))

\* the except clauses of DeepSeekProvider.chat, in their order
DeepSeekExcept(r) ==
    CASE r.exc = "requests.Timeout" ->
            Raised("RuntimeError", <<"Timeout despues de 60 s con DeepSeek">>)
      [] r.exc = "requests.ConnectionError" ->
            Raised("RuntimeError",
                   <<"Error de conexion con DeepSeek - verifica tu internet">>)
      [] r.exc = "requests.HTTPError" ->
            Raised("RuntimeError", <<"Error HTTP 404 con DeepSeek:", " ">> \o r.msg)
      [] r.exc \in {"requests.TooManyRedirects", "requests.JSONDecodeError"} ->
            Raised("RuntimeError", <<"Error de conexion con DeepSeek:", " ">> \o r.msg)
      [] r.exc = "KeyError" ->
            Raised("RuntimeError", <<"Respuesta inesperada de DeepSeek:", " ">> \o r.msg)
      [] OTHER ->
            Raised("RuntimeError", <<"Error inesperado con DeepSeek:", " ">> \o r.msg)

DeepSeekChat(o) ==
    LET r == DeepSeekTry(o)
    IN  IF r.kind = "return" THEN r ELSE DeepSeekExcept(r)

DisabledText == <<"[ChatGPT deshabilitado: falta API key]">>

\* str(e) of what client.chat.completions.create, or reading its response, raises
OpenAIError(o) ==
    CASE o = "timeout" -> <<"Request timed out.">>
      [] o = "connection_error" -> <<"Connection error.">>
      [] o = "too_many_redirects" -> <<"Connection error.">>
      [] o = "http_401" -> <<"Error code: 401">>
      [] o = "http_400" -> <<"Error code: 400">>
      [] o = "http_429" -> <<"Error code: 429">>
      [] o = "http_500" -> <<"Error code: 500">>
      [] o = "http_503" -> <<"Error code: 503">>
      [] o = "http_404" -> <<"Error code: 404">>
      [] o = "not_json" -> <<"Expecting value">>
      [] o = "no_choices" -> <<"'NoneType' object is not subscriptable">>
      [] o = "no_message" -> <<"'NoneType' object has no attribute 'content'">>
      [] OTHER -> <<>>

\* ChatGPTProvider.estimate_cost: PRICING lists gpt-4, gpt-4-turbo, gpt-3.5-turbo
ChatGPTEstimateCost(model, input_tokens, output_tokens) ==
    CASE model = "gpt-4" -> input_tokens * 3000 + output_tokens * 6000
      [] model = "gpt-4-turbo" -> input_tokens * 1000 + output_tokens * 3000
      [] model = "gpt-3.5-turbo" -> input_tokens * 100 + output_tokens * 200
      [] OTHER -> 0

\* ChatGPTProvider.chat_detailed: the dictionary it returns; the token counts
\* of response.usage are taken to be the approximate counts of the texts
ChatDetailed(p, messages, o) ==
    IF ~p.api_key
    THEN [has_error |-> FALSE, error |-> <<>>, response |-> Returned("str", DisabledText),
          cost |-> 0]
    ELSE IF OpenAIError(o) # <<>>
    THEN [has_error |-> TRUE, error |-> OpenAIError(o), response |-> Returned("str", <<>>),
          cost |-> 0]
    ELSE [has_error |-> FALSE, error |-> <<>>,
          response |-> IF o = "null_content" THEN Returned("NoneType", <<>>)
                       ELSE Returned("str", CompletionText(o)),
          cost |-> ChatGPTEstimateCost(p.model, ApproxTokens(StrOfMessages(messages)),
                                       ApproxTokens(CompletionText(o)))]

ChatGPTChat(p, messages, o) ==
    LET result == ChatDetailed(p, messages, o)
    IN  IF result.has_error THEN Raised("RuntimeError", result.error)
        ELSE result.response

\* the content of the last message whose role is "user", "" when there is none
RECURSIVE LastUserMessage(_, _)
LastUserMessage(messages, acc) ==
    IF messages = <<>> THEN acc
    ELSE LastUserMessage(Tail(messages),
                         IF Head(messages).role = "user" THEN Head(messages).content
                         ELSE acc)

\* MockProvider.chat: the canned answer chosen by keyword; each ends in a
\* "Referencias:" section
MockChat(messages) ==
    LET query_lower == Lower(LastUserMessage(messages, <<>>))
        has(w) == Contains(query_lower, <<w>>)
    IN  Returned("str",
            CASE has("matri'cula") \/ has("matricula") ->
                    <<"Segun el Reglamento de Admision para carreras de Pregrado", "\n", "\n",
                      "Referencias:", "\n",
                      "[", "Reglamento-de-Admision-para-carreras-de-Pregrado", ", p.", "15", "]">>
              [] has("nota") \/ has("calificacio'n") ->
                    <<"De acuerdo al Reglamento de Regimen de Estudios 2023, la nota minima de aprobacion es",
                      " ", "4.0", "\n", "\n", "Referencias:", "\n",
                      "[", "Reglamento-de-Regimen-de-Estudios-2023", ", p.", "23", "]">>
              [] has("arancel") \/ has("pago") ->
                    <<"Segun el Reglamento de Obligaciones Financieras", "\n", "\n",
                      "Referencias:", "\n",
                      "[", "Reglamento-de-Obligaciones-Financieras", ", p.", "8", "]">>
              [] has("ti'tulo") \/ has("titulacio'n") ->
                    <<"El Reglamento de Actividad de Titulacion establece", "\n", "\n",
                      "Referencias:", "\n",
                      "[", "Reglamento-Actividad-de-Titulacion", ", p.", "12", "]">>
              [] OTHER ->
                    <<"Basandome en la normativa disponible de la Universidad de La Frontera",
                      "\n", "\n", "Referencias:", "\n",
                      "[", "Documentos-varios-UFRO", ", p.", "N/A", "]">>)

\* provider.chat(messages) when the service answers the request with o
Chat(p, messages, o) ==
    CASE p.class = "ChatGPTProvider" -> ChatGPTChat(p, messages, o)
      [] p.class = "DeepSeekProvider" -> DeepSeekChat(o)
      [] OTHER -> MockChat(messages)

\* DeepSeekProvider.estimate_cost: SUPPORTED_MODELS lists deepseek-chat and
\* deepseek-reasoner; any other model is charged 0.10 USD per million input tokens
DeepSeekEstimateCost(model, input_tokens, output_tokens) ==
    CASE model = "deepseek-chat" -> input_tokens * 14 + output_tokens * 28
      [] model = "deepseek-reasoner" -> input_tokens * 55 + output_tokens * 220
      [] OTHER -> input_tokens * 10

\* provider.estimate_cost(input_tokens, output_tokens)
EstimateCost(p, input_tokens, output_tokens) ==
    CASE p.class = "ChatGPTProvider" ->
            ChatGPTEstimateCost(p.model, input_tokens, output_tokens)
      [] p.class = "DeepSeekProvider" ->
            DeepSeekEstimateCost(p.model, input_tokens, output_tokens)
      [] OTHER -> 10000

\* the requests that reach the service: a provider that makes no outbound
\* call has a single behaviour
OutcomesOf(p) ==
    IF p.class = "DeepSeekProvider" \/ (p.class = "ChatGPTProvider" /\ p.api_key)
    THEN Outcomes ELSE {"text_plain"}

-----------------------------------------------------------------------------
(* A provider object constructed and called directly.                      *)

NoNew == [called |-> FALSE, class |-> "none", credential |-> FALSE, error |-> "none"]

NoChat ==
    [called |-> FALSE, class |-> "none", credential |-> FALSE, outcome |-> "none",
     result |-> Returned("str", <<>>), cost |-> 0]

NoCall ==
    [phase |-> "idle", p |-> NoProvider, query |-> <<>>, outcome |-> "none", timeout |-> 0,
     waited |-> 0, result |-> Returned("str", <<>>)]

ProviderIdle ==
    /\ prov = NoProvider
    /\ lastNew = NoNew
    /\ lastChat = NoChat
    /\ call = NoCall

\* the credential a provider class looks for
CredentialOf(class, e) ==
    CASE class = "ChatGPTProvider" -> e.openai_key
      [] class = "DeepSeekProvider" -> e.deepseek_key
      [] OTHER -> TRUE

Construct(class, e) ==
    CASE class = "ChatGPTProvider" -> ChatGPTProvider(e)
      [] class = "DeepSeekProvider" -> DeepSeekProvider(e)
      [] OTHER -> MockProvider

\* p = Class(): when the constructor raises the caller holds no provider
NewProvider(class) ==
    LET r == Construct(class, env)
    IN  /\ prov' = r.obj
        /\ lastNew' = [called |-> TRUE, class |-> class,
                       credential |-> CredentialOf(class, env), error |-> r.error]
        /\ lastChat' = NoChat
        /\ UNCHANGED <<call, diskVars, env, chunkOnly, idxOnly, pipeOnly>>

NewChatGPT == NewProvider("ChatGPTProvider")

NewDeepSeek == NewProvider("DeepSeekProvider")

NewMock == NewProvider("MockProvider")

\* p.chat(messages) on the ungrounded prompt of a query, followed by the cost
\* estimate the callers make from the approximate token counts
ChatCall(query, o) ==
    /\ prov.class # "none"
    /\ o \in OutcomesOf(prov)
    /\ LET messages == Messages(query, <<>>)
           r == Chat(prov, messages, o)
       IN  lastChat' = [called |-> TRUE, class |-> prov.class,
                        credential |-> CredentialOf(prov.class, env), outcome |-> o,
                        result |-> r,
                        cost |-> IF r.kind = "return" /\ r.type = "str"
                                 THEN EstimateCost(prov, ApproxTokens(StrOfMessages(messages)),
                                                   ApproxTokens(r.text))
                                 ELSE 0]
    /\ UNCHANGED <<prov, lastNew, call, diskVars, env, chunkOnly, idxOnly, pipeOnly>>

\* self.request_timeout of a DeepSeekProvider: REQUEST_TIMEOUT, 60 by default
request_timeout == 60

\* ChatGPTProvider passes no timeout to OpenAI(...) nor to create(...): the
\* request runs under the timeout the client sets for itself, ten minutes
OpenAIClientTimeout == 600

\* the most seconds a request is followed
MaxWait == 600

\* the timeout an outbound request of p is made with; a provider that makes
\* no request answers at once
RequestTimeout(p) ==
    CASE p.class = "DeepSeekProvider" -> request_timeout
      [] p.class = "ChatGPTProvider" /\ p.api_key -> OpenAIClientTimeout
      [] OTHER -> 0

\* (mutant) the request has no timeout
TimedOut_Never(waited, timeout) == FALSE

\* the HTTP client gives the request up once the timeout has passed
TimedOut(waited, timeout) == waited >= timeout

\* p.chat(messages) is entered and the request is sent to a backend that will
\* answer it with o ("timeout": never)
Send(query, o) ==
    /\ prov.class # "none"
    /\ call.phase # "waiting"
    /\ o \in OutcomesOf(prov)
    /\ call' = [phase |-> "waiting", p |-> prov, query |-> query, outcome |-> o,
                timeout |-> RequestTimeout(prov), waited |-> 0,
                result |-> Returned("str", <<>>)]
    /\ UNCHANGED <<prov, lastNew, lastChat, diskVars, env, chunkOnly, idxOnly, pipeOnly>>

\* a second passes while the backend stays silent
Wait ==
    /\ call.phase = "waiting"
    /\ call.outcome = "timeout"
    /\ ~TimedOut(call.waited, call.timeout)
    /\ call.waited < MaxWait
    /\ call' = [call EXCEPT !.waited = @ + 1]
    /\ UNCHANGED <<prov, lastNew, lastChat, diskVars, env, chunkOnly, idxOnly, pipeOnly>>

\* the answer arrives, or the client gives up: chat returns or raises
End ==
    /\ call.phase = "waiting"
    /\ call.outcome = "timeout" => TimedOut(call.waited, call.timeout)
    /\ call' = [call EXCEPT !.phase = "ended",
                             !.result = Chat(call.p, Messages(call.query, <<>>), call.outcome)]
    /\ UNCHANGED <<prov, lastNew, lastChat, diskVars, env, chunkOnly, idxOnly, pipeOnly>>

-----------------------------------------------------------------------------
(* The answer pipeline: retrieve, build the prompt, call the provider      *)
(* (app.py, web.py, eval/quality_evaluator.py).                            *)

\* retrieve(query, index, chunks_df, k): the index and chunks_df arguments are
\* not used; a new Retriever on every call, searched once; either the error
\* the constructor raises or the chunk objects search returns, with the
\* artifact files the call has read from disk
Retrieve(idxF, chF, query, k) ==
    LET r == LoadIndexAndChunks(idxF, chF)
    IN  IF r.error # "none" THEN {[error |-> r.error, docs |-> <<>>, read |-> r.read]}
        ELSE { LET out == SearchLoop(hits, r.chunks, <<>>)
               IN  [error |-> "none", read |-> r.read,
                    docs |-> [j \in 1..Len(out.results) |-> out.chunks[out.results[j].ref]]] :
               hits \in FaissSearch(r.index, embed_query(query), k) }

ContextDocs(chunks) == [i \in 1..Len(chunks) |-> ContextDoc(chunks[i])]

\* provider.name
NameOf(p) ==
    CASE p.class = "ChatGPTProvider" -> "ChatGPT (" \o p.model \o ")"
      [] p.class = "DeepSeekProvider" ->
            "deepseek (" \o (CASE p.model = "deepseek-chat" -> "DeepSeek Chat"
                               [] p.model = "deepseek-reasoner" -> "DeepSeek Reasoner"
                               [] OTHER -> p.model) \o ")"
      [] OTHER -> "Mock"

\* the provider class a key selects; any other key selects the mock
ClassOfKey(key) ==
    CASE key = "chatgpt" -> "ChatGPTProvider"
      [] key = "deepseek" -> "DeepSeekProvider"
      [] OTHER -> "MockProvider"

ProviderKeys == {"chatgpt", "deepseek", "mock"}

\* the keys a form can post to /ask: the three of the page and any other text
WebKeys == ProviderKeys \cup {"otro"}

\* (mutant) the failure of a constructor leaves the caller without a provider
InstantiateProvider_NoFallback(key, e) == Construct(ClassOfKey(key), e).obj

\* _instantiate_provider (app.py and web.py): a constructor that raises is
\* replaced by the mock
InstantiateProvider(key, e) ==
    LET r == Construct(ClassOfKey(key), e)
    IN  IF r.error # "none" THEN MockProvider.obj ELSE r.obj

\* (mutant) the marked text without the cause
ErrorAnswer_NoCause(msg) == <<"[Error proveedor]">>

\* f"[Error proveedor] {e}"
ErrorAnswer(msg) == <<"[Error proveedor]", " ">> \o msg

\* try: answer = provider.chat(messages) / except Exception: the marked text
ChatOrError(p, messages, o) ==
    LET r == Chat(p, messages, o)
    IN  [raised |-> r.kind = "raise",
         answer |-> IF r.kind = "raise" THEN Returned("str", ErrorAnswer(r.msg)) ELSE r]

\* the seconds the call took: a request that times out lasts request_timeout
\* seconds, any other is answered within one
ElapsedOf(o) == IF o = "timeout" THEN 60 ELSE 1

\* REF_SECTION_RE.search(text): what follows the first "Referencias:" (any
\* case), stripped; "" when there is none
RECURSIVE ExtractReferences(_)
ExtractReferences(text) ==
    IF text = <<>> THEN <<>>
    ELSE IF LowerTok(Head(text)) = "referencias:" THEN Strip(Tail(text))
    ELSE ExtractReferences(Tail(text))

FormatReference(d) ==
    LET src == IF d.source # <<>> THEN d.source ELSE <<"Documento">>
        name == Strip(ReplaceAll(ReplaceAll(src, <<".pdf">>, <<>>),
                                 <<"data", "/", "raw", "/">>, <<>>))
        page == IF d.page # 0 THEN ToString(d.page) ELSE "N/A"
    IN  <<"[">> \o name \o <<", p.", page, "]">>

max_refs == 3

\* (mutant) a reference for every document
FormatReferencesFromDocs_NoCap(docs) ==
    Join(<<"\n">>, [i \in 1..Len(docs) |-> FormatReference(docs[i])])

\* _format_references_from_docs(docs): at most max_refs references
FormatReferencesFromDocs(docs) ==
    Join(<<"\n">>, [i \in 1..Min(max_refs, Len(docs)) |-> FormatReference(docs[i])])

\* the gold items of an evaluation: a question and the expected answer ("" when
\* the item has none)
GoldPool ==
    { [question |-> <<"matricula">>, answer |-> <<" ", "15", " ">>],
      [question |-> <<"nota">>, answer |-> <<>>] }

GoldSets == UNION { [1..n -> GoldPool] : n \in 0..MaxGold }

\* lines 107-110 of evaluate_provider: the references of the answer, or, when
\* it has none, those of the retrieved documents appended to it as a section;
\* rstrip on None raises AttributeError
EnsureReferences(answer, ctx_docs) ==
    LET refs0 == ExtractReferences(answer.text)
        from_docs == FormatReferencesFromDocs(ctx_docs)
    IN  IF refs0 # <<>>
        THEN [error |-> "none", refs_text |-> refs0, answer |-> answer.text]
        ELSE IF answer.type # "str"
        THEN [error |-> "AttributeError", refs_text |-> from_docs, answer |-> <<>>]
        ELSE [error |-> "none", refs_text |-> from_docs,
              answer |-> RStrip(answer.text) \o <<"\n", "\n", "Referencias:", "\n">>
                         \o from_docs]

\* lines 121-124 of evaluate_provider
ExactMatch(gold_answer_raw, answer) ==
    LET gold_answer == Lower(Strip(gold_answer_raw))
    IN  gold_answer # <<>> /\ Contains(Lower(Strip(answer)), gold_answer)

NoProcess == [kind |-> "none", k |-> 1]

NoReply ==
    [called |-> FALSE, query |-> <<>>, path |-> "none", retrieval |-> "none", read |-> {},
     docs |-> <<>>,
     prompt |-> <<>>, messages |-> <<>>, calls |-> <<>>, cost |-> 0, error |-> "none"]

NoOutputs == [csv |-> {}, json |-> {}]

NoStamp == 0

SaveIdle ==
    /\ clock = 0
    /\ stamp = NoStamp
    /\ outDir = NoOutputs
    /\ metrics = <<>>
    /\ runLog = <<>>

PipelineIdle ==
    /\ process = NoProcess
    /\ provider = NoProvider
    /\ gold = <<>>
    /\ evalPc = "idle"
    /\ results = <<>>
    /\ itemLog = <<>>
    /\ reply = NoReply
    /\ SaveIdle

\* the requests a caller of the pipeline makes in this model: the callers
\* treat every exception of chat alike, two kinds of failure stand for all
PipelineOutcomes == {"timeout", "http_429", "null_content", "text_with_refs", "text_plain"}

\* (mutant) a chat call that raised is made once more
ChatCalls_RetryOnce(raised) == IF raised THEN <<"generate", "generate">> ELSE <<"generate">>

\* the calls of provider.chat for one item: one, inside try/except, no loop
ChatCalls(raised) == <<"generate">>

\* the calls one iteration of evaluate_provider makes, in the order of its
\* statements, up to the statement that raised: retrieve, build_user_prompt
\* and the message list, provider.chat, then references, cost, exact match
\* and the EvalResult
ItemSteps(retrieval_error, chat_raised, refs_error) ==
    IF retrieval_error # "none" THEN <<"retrieve">>
    ELSE <<"retrieve", "assemble">> \o ChatCalls(chat_raised)
         \o (IF refs_error # "none" THEN <<>> ELSE <<"score">>)

\* app.py --batch: the provider is instantiated, run_and_save reads the clock,
\* the gold set is read and evaluate_provider starts
BatchStart(key, g) ==
    /\ process.kind = "batch"
    /\ evalPc = "idle"
    /\ provider' = InstantiateProvider(key, env)
    /\ gold' = g
    /\ results' = <<>>
    /\ itemLog' = <<>>
    /\ evalPc' = "running"
    /\ stamp' = clock
    /\ metrics' = <<>>
    /\ UNCHANGED <<clock, outDir, runLog>>
    /\ UNCHANGED <<process, reply, diskVars, env, chunkOnly, idxOnly, provOnly>>

\* one iteration of the loop of evaluate_provider; an exception that no
\* handler catches (retrieve is called outside any try) ends the run
EvalItem(o) ==
    /\ evalPc = "running"
    /\ Len(results) < Len(gold)
    /\ o \in OutcomesOf(provider)
    /\ \E item \in {gold[Len(results) + 1]} :
       \E retrieved \in Retrieve(indexFile, chunksFile, item.question, process.k) :
       \E ctx_docs \in {ContextDocs(retrieved.docs)} :
       \E messages \in {Messages(item.question, ctx_docs)} :
       \E c \in {ChatOrError(provider, messages, o)} :
       \E e \in {EnsureReferences(c.answer, ctx_docs)} :
       \E error \in {IF retrieved.error # "none" THEN retrieved.error ELSE e.error} :
          /\ results' =
                IF error # "none" THEN results
                ELSE Append(results,
                            [question |-> item.question,
                             provider |-> NameOf(provider),
                             answer |-> e.answer,
                             references |-> e.refs_text,
                             latency_sec |-> ElapsedOf(o),
                             est_cost_usd |->
                                 EstimateCost(provider, ApproxTokens(StrOfMessages(messages)),
                                              ApproxTokens(e.answer)),
                             exact_match |-> ExactMatch(item.answer, e.answer)])
          /\ itemLog' = Append(itemLog,
                               [error |-> error, retrieval |-> retrieved.error,
                                docs |-> Len(retrieved.docs),
                                called |-> retrieved.error = "none",
                                raised |-> retrieved.error = "none" /\ c.raised,
                                outcome |-> o, ctx_docs |-> ctx_docs, raw |-> c.answer,
                                messages |-> IF retrieved.error = "none" THEN messages
                                             ELSE <<>>,
                                steps |-> ItemSteps(retrieved.error, c.raised, e.error)])
          /\ evalPc' = IF error = "none" THEN "running" ELSE "aborted"
    /\ UNCHANGED <<process, provider, gold, reply, diskVars, env, chunkOnly, idxOnly, provOnly, saveOnly>>

\* the loop is over: evaluate_provider returns results
EvalReturn ==
    /\ evalPc = "running"
    /\ Len(results) = Len(gold)
    /\ evalPc' = "returned"
    /\ UNCHANGED <<process, provider, gold, results, itemLog, reply, diskVars, env, chunkOnly,
                   idxOnly, provOnly, saveOnly>>

\* an empty dict
EmptyDict == [key \in {} |-> key]

\* round(num / den, ...) to a whole number of the unit num is counted in:
\* to the nearest, a tie to the even neighbour
RoundDiv(num, den) ==
    LET q == num \div den
        r == num % den
    IN  IF 2 * r < den THEN q
        ELSE IF 2 * r > den THEN q + 1
        ELSE IF q % 2 = 0 THEN q ELSE q + 1

RECURSIVE Sum(_)
Sum(xs) == IF xs = <<>> THEN 0 ELSE Head(xs) + Sum(Tail(xs))

Thousandths == 1000    \* the unit of a value rounded to 3 decimals

CostUnitsPerMillionth == 100    \* 1e-8 USD units in the unit of round(avg_cost, 6)

\* (mutant) the third decimal is cut, not rounded
Rate_Truncated(count, n) == (Thousandths * count) \div n

\* round(count / n, 3), in thousandths
Rate(count, n) == RoundDiv(Thousandths * count, n)

\* (mutant) an empty list gives the metrics of zero results
calculate_aggregate_metrics_ZeroFilled(rs) ==
    [n |-> Len(rs), exact_match |-> 0, citation_coverage |-> 0, avg_latency_sec |-> 0,
     avg_cost_usd |-> 0]

\* calculate_aggregate_metrics: the rates and the latency in thousandths, the
\* cost in millionths of a dollar
calculate_aggregate_metrics(rs) ==
    IF rs = <<>> THEN EmptyDict
    ELSE LET n == Len(rs)
             one(b) == IF b THEN 1 ELSE 0
         IN  [n |-> n,
              exact_match |-> Rate(Sum([i \in 1..n |-> one(rs[i].exact_match)]), n),
              citation_coverage |->
                  Rate(Sum([i \in 1..n |-> one(rs[i].references # <<>>)]), n),
              avg_latency_sec |->
                  RoundDiv(Thousandths * Sum([i \in 1..n |-> rs[i].latency_sec]), n),
              avg_cost_usd |->
                  RoundDiv(Sum([i \in 1..n |-> rs[i].est_cost_usd]), n * CostUnitsPerMillionth)]

\* datetime.now().strftime("%Y%m%d_%H%M%S"): one text per second
StampText(second) == ToString(second)

ResultsPath(provider_name, second) ==
    <<"eval", "/", "results_", provider_name, "_", StampText(second), ".csv">>

SummaryPath(provider_name, second) ==
    <<"eval", "/", "summary_", provider_name, "_", StampText(second), ".json">>

\* the rows save_csv writes under the header
CsvRows(rs) ==
    [i \in 1..Len(rs) |->
        [question |-> rs[i].question, provider |-> rs[i].provider,
         answer |-> rs[i].answer, references |-> rs[i].references]]

\* the object save_summary dumps
SummaryData(provider_name, m) == m @@ ("provider" :> provider_name)

\* open(path, 'w') and the write: a file of that name is replaced
WriteFile(files, path, data) ==
    { f \in files : f.path # path } \cup { [path |-> path, data |-> data] }

\* run_and_save after evaluate_provider has returned: the metrics, the CSV,
\* the summary, and the return of the metrics
RunSave ==
    /\ evalPc = "returned"
    /\ \E m \in {calculate_aggregate_metrics(results)} :
       \E csv \in {[path |-> ResultsPath(NameOf(provider), stamp), data |-> CsvRows(results)]} :
       \E json \in {[path |-> SummaryPath(NameOf(provider), stamp),
                      data |-> SummaryData(NameOf(provider), m)]} :
          /\ outDir' = [csv |-> WriteFile(outDir.csv, csv.path, csv.data),
                        json |-> WriteFile(outDir.json, json.path, json.data)]
          /\ metrics' = <<m>>
          /\ runLog' = Append(runLog, [provider |-> NameOf(provider), stamp |-> stamp,
                                       n |-> Len(results), csv |-> csv, json |-> json])
    /\ evalPc' = "saved"
    /\ UNCHANGED <<clock, stamp>>
    /\ UNCHANGED <<process, provider, gold, results, itemLog, reply, diskVars, env, chunkOnly,
                   idxOnly, provOnly>>

\* the process has ended (main returns after the batch, or the exception of
\* an item ended it) and app.py --batch is started once more
BatchAgain ==
    /\ process.kind = "batch"
    /\ evalPc \in {"saved", "aborted"}
    /\ Len(runLog) < MaxRuns
    /\ evalPc' = "idle"
    /\ provider' = NoProvider
    /\ gold' = <<>>
    /\ results' = <<>>
    /\ itemLog' = <<>>
    /\ metrics' = <<>>
    /\ UNCHANGED <<clock, stamp, outDir, runLog>>
    /\ UNCHANGED <<process, reply, diskVars, env, chunkOnly, idxOnly, provOnly>>

\* a second passes
Tick ==
    /\ clock < MaxClock
    /\ clock' = clock + 1
    /\ UNCHANGED <<stamp, outDir, metrics, runLog>>
    /\ UNCHANGED <<process, provider, gold, evalPc, results, itemLog, reply, diskVars, env,
                   chunkOnly, idxOnly, provOnly>>

\* Durations, in seconds of the wall clock: of a retrieval (a Retriever is
\* built and searched), of the assembly of the messages, and of the
\* construction of a provider.
RetrieveTime == 5

AssembleTime == 1

ConstructTime == 2

\* (mutant) the clock is read before the provider is constructed
SpanStart_BeforeConstruct(before_construct, after_construct) == before_construct

\* start = time.time(): read after _instantiate_provider has returned
SpanStart(before_construct, after_construct) == after_construct

\* key.upper() for the two keys of a comparison
Upper(key) == IF key = "deepseek" THEN "DEEPSEEK" ELSE "CHATGPT"

\* the two calls of a comparison, one after the other from the clock value
\* begin on: deepseek first, then chatgpt; time is the difference of the two
\* clock readings around chat
CompareCalls(messages, e, o1, o2, begin) ==
    LET one(key, o, now) ==
            LET p == InstantiateProvider(key, e)
                start == SpanStart(now, now + ConstructTime)
                c == ChatOrError(p, messages, o)
                stop == now + ConstructTime + ElapsedOf(o)
            IN  [class |-> p.class, raised |-> c.raised, answer |-> c.answer,
                 time |-> stop - start, label |-> Upper(key), outcome |-> o,
                 chat_from |-> now + ConstructTime, chat_to |-> stop]
        first == one("deepseek", o1, begin)
    IN  <<first, one("chatgpt", o2, first.chat_to)>>

\* min(comparisons, key=...) / max(comparisons, key=...): the first entry with
\* the least / the greatest time
Fastest(comparisons) ==
    comparisons[CHOOSE i \in 1..Len(comparisons) :
                   /\ \A j \in 1..Len(comparisons) : comparisons[i].time <= comparisons[j].time
                   /\ \A j \in 1..(i - 1) : comparisons[j].time # comparisons[i].time]

Slowest(comparisons) ==
    comparisons[CHOOSE i \in 1..Len(comparisons) :
                   /\ \A j \in 1..Len(comparisons) : comparisons[i].time >= comparisons[j].time
                   /\ \A j \in 1..(i - 1) : comparisons[j].time # comparisons[i].time]

\* the answer of one provider, with the cost estimated from the approximate
\* token counts; len(None) raises TypeError
SingleCall(p, messages, o) ==
    LET c == ChatOrError(p, messages, o)
    IN  [calls |-> <<[class |-> p.class, raised |-> c.raised, answer |-> c.answer,
                      time |-> ElapsedOf(o)]>>,
         error |-> IF c.answer.type = "str" THEN "none" ELSE "TypeError",
         cost |-> IF c.answer.type = "str"
                  THEN EstimateCost(p, ApproxTokens(StrOfMessages(messages)),
                                    ApproxTokens(c.answer.text))
                  ELSE 0]

\* retrieval as app.py and web.py call it: FileNotFoundError leaves no chunks
RetrieveOrEmpty(query, k) ==
    { [error |-> r.error, read |-> r.read,
       docs |-> IF r.error = "FileNotFoundError" THEN <<>> ELSE r.docs] :
      r \in Retrieve(indexFile, chunksFile, query, k) }

\* app.py: the provider is chosen at start-up or changed between two queries
CliSelect(key) ==
    /\ process.kind = "cli"
    /\ provider' = InstantiateProvider(key, env)
    /\ UNCHANGED <<process, gold, evalPc, results, itemLog, reply, diskVars, env, chunkOnly,
                   idxOnly, provOnly, saveOnly>>

\* app.py: one query of the interactive loop
CliChat(query, o) ==
    /\ process.kind = "cli"
    /\ provider.class # "none"
    /\ o \in OutcomesOf(provider)
    /\ \E r \in RetrieveOrEmpty(query, process.k) :
          LET ctx_docs == ContextDocs(r.docs)
              messages == Messages(query, ctx_docs)
              s == SingleCall(provider, messages, o)
          IN  reply' = [called |-> TRUE, query |-> query, path |-> "cli_chat", retrieval |-> r.error,
                        read |-> r.read,
                        docs |-> ctx_docs, prompt |-> messages[2].content, messages |-> messages,
                        calls |-> s.calls, cost |-> s.cost, error |-> s.error]
    /\ UNCHANGED <<process, provider, gold, evalPc, results, itemLog, diskVars, env, chunkOnly,
                   idxOnly, provOnly, saveOnly>>

\* app.py: a comparison (provider choice "compare", or the /compare command)
CliCompare(query, o1, o2) ==
    /\ process.kind = "cli"
    /\ o1 \in OutcomesOf(InstantiateProvider("deepseek", env))
    /\ o2 \in OutcomesOf(InstantiateProvider("chatgpt", env))
    /\ \E r \in RetrieveOrEmpty(query, process.k) :
          LET ctx_docs == ContextDocs(r.docs)
              messages == Messages(query, ctx_docs)
              comparisons == CompareCalls(messages, env, o1, o2, RetrieveTime + AssembleTime)
          IN  reply' = [called |-> TRUE, query |-> query, path |-> "cli_compare", retrieval |-> r.error,
                        read |-> r.read,
                        docs |-> ctx_docs, prompt |-> messages[2].content, messages |-> messages,
                        calls |-> comparisons, cost |-> 0, error |-> "none",
                        fastest |-> Fastest(comparisons), slowest |-> Slowest(comparisons)]
    /\ UNCHANGED <<process, provider, gold, evalPc, results, itemLog, diskVars, env, chunkOnly,
                   idxOnly, provOnly, saveOnly>>

\* web.py: POST /ask with one provider
WebAsk(query, key, k, o) ==
    /\ process.kind = "web"
    /\ LET p == InstantiateProvider(key, env)
       IN  /\ o \in OutcomesOf(p)
           /\ \E r \in RetrieveOrEmpty(query, k) :
                 LET ctx_docs == ContextDocs(r.docs)
                     messages == Messages(query, ctx_docs)
                     s == SingleCall(p, messages, o)
                 IN  reply' = [called |-> TRUE, query |-> query, path |-> "web_single", key |-> key,
                               retrieval |-> r.error,
                        read |-> r.read,
                               docs |-> ctx_docs, prompt |-> messages[2].content, messages |-> messages,
                               calls |-> s.calls, cost |-> s.cost, error |-> s.error]
    /\ UNCHANGED <<process, provider, gold, evalPc, results, itemLog, diskVars, env, chunkOnly,
                   idxOnly, provOnly, saveOnly>>

\* web.py: POST /ask with provider "compare"
WebCompare(query, k, o1, o2) ==
    /\ process.kind = "web"
    /\ o1 \in OutcomesOf(InstantiateProvider("deepseek", env))
    /\ o2 \in OutcomesOf(InstantiateProvider("chatgpt", env))
    /\ \E r \in RetrieveOrEmpty(query, k) :
          LET ctx_docs == ContextDocs(r.docs)
              messages == Messages(query, ctx_docs)
          IN  reply' = [called |-> TRUE, query |-> query, path |-> "web_compare", retrieval |-> r.error,
                        read |-> r.read,
                        docs |-> ctx_docs, prompt |-> messages[2].content, messages |-> messages,
                        calls |-> CompareCalls(messages, env, o1, o2,
                                               RetrieveTime + AssembleTime),
                        cost |-> 0, error |-> "none"]
    /\ UNCHANGED <<process, provider, gold, evalPc, results, itemLog, diskVars, env, chunkOnly,
                   idxOnly, provOnly, saveOnly>>

-----------------------------------------------------------------------------
(* Specifications.                                                         *)

IndexIdle ==
    /\ lastBuild = NoBuild
    /\ retr = NoRetriever
    /\ loadOutcome = NoLoad
    /\ loadedAfter = NoBuild
    /\ returned = <<>>
    /\ earlier = <<>>
    /\ lastSearch = NoSearch

\* a fresh checkout: no artifact on disk, no Retriever
InitIndex ==
    /\ indexFile = Absent
    /\ chunksFile = Absent
    /\ IndexIdle
    /\ ChunkIdle
    /\ env = NoCredentials
    /\ ProviderIdle
    /\ PipelineIdle

NextIndex ==
    \/ \E cs \in ChunkLists : BuildAndSaveIndex(cs)
    \/ BuildRejected
    \/ \E cs \in ChunkLists : BuildInterrupted(cs)
    \/ NewRetriever
    \/ DropRetriever
    \/ IndexFileDeleted
    \/ \E q \in QueryPool, k \in 1..MaxK : Search(q, k)

SpecIndex == InitIndex /\ [][NextIndex]_vars

InitProv ==
    /\ env \in Environments
    /\ ProviderIdle
    /\ indexFile = Absent
    /\ chunksFile = Absent
    /\ IndexIdle
    /\ ChunkIdle
    /\ PipelineIdle

NextProv ==
    \/ NewChatGPT
    \/ NewDeepSeek
    \/ NewMock
    \/ \E q \in QueryPool, o \in Outcomes : ChatCall(q, o)

SpecProv == InitProv /\ [][NextProv]_vars

\* one provider object whose chat calls are followed while they wait; the
\* clock advances and the HTTP client acts on its timeout
NextCall ==
    \/ call.phase # "waiting" /\ NewChatGPT
    \/ call.phase # "waiting" /\ NewDeepSeek
    \/ call.phase # "waiting" /\ NewMock
    \/ \E q \in QueryPool, o \in Outcomes : Send(q, o)
    \/ Wait
    \/ End

SpecCall == InitProv /\ [][NextCall]_vars /\ WF_vars(Wait) /\ WF_vars(End)

\* The functions of rag/prompts.py called directly, on any arguments.
SourcePool ==
    { <<"reg", ".pdf">>, <<"data", "/", "raw", "/", "reg", ".pdf">>,
      <<"docs", "/", "plan", ".txt">>, <<"plan">>, <<"normas", "/", "reg", ".pdf">> }

PromptDocPool ==
    { [content |-> c, source |-> src, page |-> 15, score |-> <<100>>] :
      c \in {<<"la", " ", "matricula">>, <<"nota", " ", "minima">>}, src \in SourcePool }

PromptDocLists == UNION { [1..n -> PromptDocPool] : n \in 0..MaxPromptDocs }

\* queries with no keyword, with one, with keywords of two categories in
\* either order, with a keyword inside a longer word, in upper case
DetectQueryPool ==
    { <<"hola">>, <<"la", " ", "matricula">>, <<"MATRICULA">>, <<"a", "nota", "r">>,
      <<"Pago", " ", "de", " ", "matricula">>, <<"titulo", " ", "y", " ", "nota">>,
      <<"tesis", " ", "y", " ", "beca">>, <<"pos", "grado">>, <<"el", " ", "arancel">>,
      <<"examen", " ", "de", " ", "grado">>, <<"nota", " ", "de", " ", "ingreso">>, <<"horario", " ", "de", " ", "biblioteca">>, <<>> }

QueryTypePool == {"matricula", "notas", "financiero", "titulo", "general", "otro", ""}

BuildUserPrompt(query, docs) ==
    /\ reply' = [NoReply EXCEPT !.called = TRUE, !.path = "build_user_prompt",
                                !.query = query, !.docs = docs,
                                !.prompt = build_user_prompt(query, docs)]
    /\ UNCHANGED <<process, provider, gold, evalPc, results, itemLog, diskVars, env, chunkOnly,
                   idxOnly, provOnly, saveOnly>>

DetectQueryType(query) ==
    /\ reply' = [called |-> TRUE, path |-> "detect_query_type", query |-> query,
                 query_type |-> detect_query_type(query)]
    /\ UNCHANGED <<process, provider, gold, evalPc, results, itemLog, diskVars, env, chunkOnly,
                   idxOnly, provOnly, saveOnly>>

GetSystemPrompt(query_type) ==
    /\ reply' = [called |-> TRUE, path |-> "get_system_prompt", query_type |-> query_type,
                 system |-> get_system_prompt(query_type)]
    /\ UNCHANGED <<process, provider, gold, evalPc, results, itemLog, diskVars, env, chunkOnly,
                   idxOnly, provOnly, saveOnly>>

NextPrompt ==
    \/ \E q \in QueryPool, docs \in PromptDocLists : BuildUserPrompt(q, docs)
    \/ \E q \in DetectQueryPool : DetectQueryType(q)
    \/ \E t \in QueryTypePool : GetSystemPrompt(t)

InitPrompt ==
    /\ env = NoCredentials
    /\ indexFile = Absent
    /\ chunksFile = Absent
    /\ IndexIdle
    /\ ChunkIdle
    /\ ProviderIdle
    /\ PipelineIdle

SpecPrompt == InitPrompt /\ [][NextPrompt]_vars

\* chunks are created from the pools of inputs, by each of the four ways
InitChunk ==
    /\ ChunkIdle
    /\ indexFile = Absent
    /\ chunksFile = Absent
    /\ IndexIdle
    /\ env = NoCredentials
    /\ ProviderIdle
    /\ PipelineIdle

NextChunk ==
    \/ \E c \in ContentPool, s \in PathPool, p \in PagePool, cid \in ChunkIdPool,
          d \in DocIdPool : NewChunk(c, s, p, cid, d)
    \/ \E i \in 1..Len(DictPool) : FromDict(DictPool[i])
    \/ \E f \in PathPool, p \in PageArgPool, c \in ContentPool, d \in DocIdPool,
          cid \in ChunkIdPool : FromFileFragment(f, p, c, d, cid)
    \/ \E f \in PathPool \ {<<>>}, p \in PagePool, c \in ContentPool :
          Ingest(Basename(f), p, c)

SpecChunk == InitChunk /\ [][NextChunk]_vars

\* what a process may find on disk: nothing, the two artifacts of a complete
\* build of the pool, or the index file of a first build that was interrupted
DiskStates ==
    { [index |-> Absent, chunks |-> Absent],
      [index |-> FileOf(IndexVectors(ChunkPool)), chunks |-> FileOf(ChunkRows(ChunkPool))],
      [index |-> FileOf(IndexVectors(ChunkPool)), chunks |-> Absent] }

\* a process starts: the batch evaluation, the interactive CLI or the web app,
\* with its environment, its --k and the disk as it finds it
Init ==
    /\ \E d \in DiskStates : indexFile = d.index /\ chunksFile = d.chunks
    /\ env \in Environments
    /\ process \in [kind : {"batch", "cli", "web"}, k : 1..MaxTopK]
    /\ provider = NoProvider
    /\ gold = <<>>
    /\ evalPc = "idle"
    /\ results = <<>>
    /\ itemLog = <<>>
    /\ reply = NoReply
    /\ SaveIdle
    /\ IndexIdle
    /\ ChunkIdle
    /\ ProviderIdle

Next ==
    \/ \E key \in ProviderKeys, g \in GoldSets : BatchStart(key, g)
    \/ \E o \in PipelineOutcomes : EvalItem(o)
    \/ EvalReturn
    \/ RunSave
    \/ \E key \in ProviderKeys : CliSelect(key)
    \/ \E q \in QueryPool, o \in PipelineOutcomes : CliChat(q, o)
    \/ \E q \in QueryPool, o1, o2 \in PipelineOutcomes : CliCompare(q, o1, o2)
    \/ \E q \in QueryPool, key \in WebKeys, k \in 1..MaxTopK, o \in PipelineOutcomes :
          WebAsk(q, key, k, o)
    \/ \E q \in QueryPool, k \in 1..MaxTopK, o1, o2 \in PipelineOutcomes :
          WebCompare(q, k, o1, o2)

Spec == Init /\ [][Next]_vars

EvalGoldSets == UNION { [1..n -> GoldPool] : n \in 0..MaxEvalGold }

\* evaluation runs, one after the other, over the index of a complete build
\* and with no credentials configured
InitEval ==
    /\ indexFile = FileOf(IndexVectors(ChunkPool))
    /\ chunksFile = FileOf(ChunkRows(ChunkPool))
    /\ env = NoCredentials
    /\ process = [kind |-> "batch", k |-> 1]
    /\ provider = NoProvider
    /\ gold = <<>>
    /\ evalPc = "idle"
    /\ results = <<>>
    /\ itemLog = <<>>
    /\ reply = NoReply
    /\ SaveIdle
    /\ IndexIdle
    /\ ChunkIdle
    /\ ProviderIdle

NextEval ==
    \/ \E key \in ProviderKeys, g \in EvalGoldSets : BatchStart(key, g)
    \/ \E o \in PipelineOutcomes : EvalItem(o)
    \/ EvalReturn
    \/ RunSave
    \/ BatchAgain
    \/ Tick

SpecEval == InitEval /\ [][NextEval]_vars

-----------------------------------------------------------------------------
(* Claims about the index and the Retriever, checked under SpecIndex.      *)

\* C6: Retriever.search leaves the base chunk store unchanged: no chunk held
\* in Retriever.chunks carries a score, and a result returned by an earlier
\* search keeps the score it was returned with.
C6_SearchLeavesStoreUnscored ==
    /\ \A i \in 1..Len(retr.chunks) : retr.chunks[i].score = NoScore
    /\ \A j \in 1..Len(earlier) : retr.chunks[earlier[j].ref].score = earlier[j].score

\* C7: whatever builds ran, complete or interrupted between the two writes, a
\* load that succeeds yields as many vectors as metadata records, the i-th
\* vector being the embedding of the i-th record's content.
C7_LoadedPairIsOneBuild ==
    retr.loaded =>
        /\ Len(retr.index) = Len(retr.chunks)
        /\ \A i \in 1..Min(Len(retr.index), Len(retr.chunks)) :
              retr.index[i] = embed_texts(<<retr.chunks[i].content>>)[1]

\* C8: a Retriever construction that finds the index file or the metadata file
\* (or both) absent raises FileNotFoundError, having read neither file.
C8_MissingArtifactIsNotFound ==
    (loadOutcome.called /\ (~loadOutcome.index_exists \/ ~loadOutcome.chunks_exists)) =>
        /\ loadOutcome.error = "FileNotFoundError"
        /\ loadOutcome.read = {}
        /\ ~retr.loaded

\* a load was attempted with the metadata table present and the index file gone
C8_Witness ==
    /\ loadOutcome.called
    /\ ~loadOutcome.index_exists
    /\ loadOutcome.chunks_exists
    /\ loadOutcome.error = "FileNotFoundError"

\* the identity of a chunk: its id, the triple the id is hashed from, and the
\* free metadata the table carries
SameChunk(a, b) ==
    /\ a.chunk_id = b.chunk_id
    /\ a.doc_id = b.doc_id
    /\ a.page = b.page
    /\ a.content = b.content
    /\ a.url = b.url
    /\ a.vigencia = b.vigencia

\* C10: a Retriever loaded after a complete build_and_save_index(c) holds, at
\* every position i, the embedding of c[i].content in the index and the record
\* of that same c[i] in chunks; a chunk that search returns for the index
\* position i is c[i].
C10_PositionalCorrespondence ==
    (retr.loaded /\ loadedAfter.complete) =>
        LET c == loadedAfter.chunks
        IN  /\ Len(retr.index) = Len(c)
            /\ Len(retr.chunks) = Len(c)
            /\ \A i \in 1..Len(c) :
                  /\ retr.index[i] = embed_texts(<<c[i].content>>)[1]
                  /\ SameChunk(retr.chunks[i], c[i])
            /\ \A j \in 1..Len(returned) :
                  SameChunk(retr.chunks[returned[j].ref], c[returned[j].idx + 1])

\* a search on a Retriever loaded after a complete build of two different
\* chunks returned both of them
C10_Witness ==
    /\ retr.loaded
    /\ loadedAfter.complete
    /\ Len(loadedAfter.chunks) = 2
    /\ loadedAfter.chunks[1] # loadedAfter.chunks[2]
    /\ Len(returned) = 2

-----------------------------------------------------------------------------
(* Claims about a provider used directly, checked under SpecProv.          *)

\* C4: a ChatGPTProvider or DeepSeekProvider constructed with no credential in
\* the environment does not raise in its constructor, and every chat call on
\* it returns the text that marks it disabled, at cost zero.
C4_NoCredentialDegrades ==
    /\ (lastNew.called /\ lastNew.class \in {"ChatGPTProvider", "DeepSeekProvider"}
            /\ ~lastNew.credential)
          => lastNew.error = "none"
    /\ (lastChat.called /\ lastChat.class \in {"ChatGPTProvider", "DeepSeekProvider"}
            /\ ~lastChat.credential)
          => /\ lastChat.result = Returned("str", DisabledText)
             /\ lastChat.cost = 0

\* C5: whatever the service does with the request, chat of DeepSeekProvider and
\* of ChatGPTProvider returns a string or raises RuntimeError with a cause:
\* never another exception, never a value that is not a string.
C5_TextOrRuntimeError ==
    (lastChat.called /\ lastChat.class \in {"ChatGPTProvider", "DeepSeekProvider"}) =>
        \/ lastChat.result.kind = "return" /\ lastChat.result.type = "str"
        \/ /\ lastChat.result.kind = "raise"
           /\ lastChat.result.exc = "RuntimeError"
           /\ lastChat.result.msg # <<>>

-----------------------------------------------------------------------------
(* Claims about the answer pipeline, checked under Spec.                   *)

\* the cause chat raises with when the service answers with o
CauseOf(p, o) == Chat(p, <<>>, o).msg

\* C1: in evaluate_provider a raise of provider.chat never ends the run: the
\* item it happens on is appended like any other, its answer being the marked
\* text followed by the cause; the results follow the gold set item by item,
\* and a run that returns has one result per gold item.
C1_ChatFailureNeverEndsTheRun ==
    /\ Len(results) <= Len(gold)
    /\ \A i \in 1..Len(itemLog) : itemLog[i].raised => itemLog[i].error = "none"
    /\ \A i \in 1..Len(results) :
          /\ results[i].question = gold[i].question
          /\ itemLog[i].raised =>
                /\ SubSeq(results[i].answer, 1, 2) = <<"[Error proveedor]", " ">>
                /\ Contains(results[i].answer, CauseOf(provider, itemLog[i].outcome))
    /\ evalPc = "returned" => Len(results) = Len(gold)

\* an evaluation of two different gold items returned, chat having raised on
\* the first item and answered the second
C1_Witness ==
    /\ evalPc = "returned"
    /\ Len(gold) = 2
    /\ gold[1] # gold[2]
    /\ itemLog[1].raised
    /\ ~itemLog[2].raised

\* the calls of the latest web or CLI query that ended in a raise of chat
RaisedCalls == { i \in 1..Len(reply.calls) : reply.calls[i].raised }

IsErrorMarked(text) == Len(text) >= 1 /\ text[1] = "[Error proveedor]"

\* C2: whenever provider.chat raises (an item of the batch evaluation, a web
\* /ask with one provider, a query of the CLI chat loop) the answer recorded is
\* the marked error text and the estimated cost recorded is 0.
C2_FailedChatCostsNothing ==
    /\ \A i \in 1..Len(results) :
          itemLog[i].raised =>
              /\ IsErrorMarked(results[i].answer)
              /\ results[i].est_cost_usd = 0
    /\ (reply.called /\ reply.path \in {"web_single", "cli_chat"}) =>
          \A i \in RaisedCalls :
              /\ IsErrorMarked(reply.calls[i].answer.text)
              /\ reply.cost = 0

\* C3: an evaluated item whose provider call raised has no references and no
\* exact match, whatever was retrieved for it and whatever its gold answer.
C3_FailedItemScoresNothing ==
    \A i \in 1..Len(results) :
        itemLog[i].raised =>
            /\ results[i].references = <<>>
            /\ ~results[i].exact_match

\* C9: when retrieve raises FileNotFoundError the caller goes on with no
\* documents, builds the prompt that says none was found and calls the
\* provider: the web handler, the CLI chat and compare paths, the evaluator.
C9_NotFoundProceedsUngrounded ==
    /\ (reply.called /\ reply.retrieval = "FileNotFoundError") =>
          /\ reply.docs = <<>>
          /\ reply.prompt = build_user_prompt(reply.query, <<>>)
          /\ Len(reply.calls) >= 1
    /\ \A i \in 1..Len(itemLog) :
          itemLog[i].retrieval = "FileNotFoundError" =>
              /\ itemLog[i].called
              /\ itemLog[i].error = "none"

-----------------------------------------------------------------------------
(* Retriever.search: size, order and range of the result.                  *)

\* the score the j-th returned chunk carries
ReturnedScore(j) == retr.chunks[returned[j].ref].score[1]

InRange(hits, n) == SelectSeq(hits, LAMBDA h : h.idx >= 0 /\ h.idx < n)

\* C12: a position given by index.search that lies outside [0, len(chunks)),
\* the negative "no match" position included, is skipped: every returned chunk
\* is an element of the loaded chunk list, one per position inside the range,
\* and the search ends normally.
C12_OutOfRangePositionsSkipped ==
    lastSearch.called =>
        /\ \A j \in 1..Len(returned) :
              /\ returned[j].idx >= 0 /\ returned[j].idx < Len(retr.chunks)
              /\ returned[j].ref \in 1..Len(retr.chunks)
        /\ Len(returned) = Len(InRange(lastSearch.hits, Len(retr.chunks)))
        /\ \A j \in 1..Len(returned) :
              returned[j].idx = InRange(lastSearch.hits, Len(retr.chunks))[j].idx

\* one search met the "no match" position and a position past the end of chunks
C12_Witness ==
    /\ lastSearch.called
    /\ \E j \in 1..Len(lastSearch.hits) : lastSearch.hits[j].idx < 0
    /\ \E j \in 1..Len(lastSearch.hits) : lastSearch.hits[j].idx >= Len(retr.chunks)
    /\ Len(returned) = 1

\* a score that is a cosine similarity, in hundredths
IsCosine(score) == score \in -100..100

\* C19: every vector the encoder produces, by embed_text (the query) as by
\* embed_texts (the batch), has unit L2 norm: the query vector handed to
\* index.search is normalised like the stored vectors and every score
\* returned is a cosine similarity.
C19_EncoderVectorsHaveUnitNorm ==
    /\ \A i \in 1..Len(retr.index) : retr.index[i].mag = UnitMag
    /\ \A i \in 1..Len(ChunkPool) :
          embed_texts(<<ChunkPool[i].content>>)[1].mag = UnitMag
    /\ lastSearch.called =>
          /\ lastSearch.query_vec.mag = UnitMag
          /\ \A j \in 1..Len(returned) : IsCosine(ReturnedScore(j))

-----------------------------------------------------------------------------
(* Chunk identity and provenance.                                          *)

SameTriple(a, b) == a.doc_id = b.doc_id /\ a.page = b.page /\ a.content = b.content

\* C13: two chunks created without a caller-supplied chunk_id (by the
\* constructor, from_dict, from_file_fragment or ingest._make_chunk_id) whose
\* stored (doc_id, page, content) are identical have identical chunk_id.
C13_SameTripleSameChunkId ==
    \A i, j \in 1..Len(made) :
        (~made[i].given /\ ~made[j].given /\ SameTriple(made[i], made[j]))
            => made[i].chunk_id = made[j].chunk_id

HasDirectory(name) == \E i \in 1..Len(name) : name[i] = "/"

\* C14: the doc_id and the source of every chunk made by the constructor,
\* from_dict or from_file_fragment are bare file names with no directory
\* component, whatever source and doc_id the caller passed.
C14_DocIdIsBareFilename ==
    \A i \in 1..Len(made) :
        made[i].via \in {"constructor", "from_dict", "from_file_fragment"}
            => ~HasDirectory(made[i].doc_id) /\ ~HasDirectory(made[i].source)

-----------------------------------------------------------------------------
(* The user prompt without documents.                                      *)

\* the labels of a fragment block and of a citation
FragmentLabels ==
    { "FRAGMENTO", "Fuente:", "Pagina:", "Relevancia:", "Contenido exacto:",
      "DOCUMENTOS OFICIALES UFRO ENCONTRADOS:", Delimiter, "Referencias:", "[" }

\* the text names a document of the pool or one of its pages
MentionsDocument(text) ==
    \E i \in 1..Len(ChunkPool) :
        \/ ChunkPool[i].source # <<>> /\ Contains(text, <<ChunkPool[i].source[1]>>)
        \/ ChunkPool[i].doc_id # <<>> /\ Contains(text, <<ChunkPool[i].doc_id[1]>>)
        \/ Contains(text, <<ToString(ChunkPool[i].page)>>)

\* C15: with no documents the user prompt holds the query and the sentence
\* that no relevant documents were found, and neither a fragment block nor a
\* source name, a page or a citation.
C15_EmptyDocsPrompt ==
    (reply.called /\ reply.docs = <<>>) =>
        /\ reply.prompt = build_user_prompt(reply.query, <<>>)
        /\ Contains(reply.prompt, reply.query)
        /\ Contains(reply.prompt,
              <<"No se encontraron documentos relevantes en la base de datos de normativa UFRO.">>)
        /\ \A i \in 1..Len(reply.prompt) : reply.prompt[i] \notin FragmentLabels
        /\ ~MentionsDocument(reply.prompt)

\* a query was answered with no documents retrieved
C15_Witness ==
    /\ reply.called
    /\ reply.docs = <<>>
    /\ reply.query = <<"matricula">>
    /\ Contains(reply.prompt, <<"Pregunta:", " ", "matricula">>)

-----------------------------------------------------------------------------
(* The outputs of an evaluation run, checked under SpecEval.               *)

FileAt(files, path) == { f \in files : f.path = path }

Matches(rs) == Cardinality({ i \in 1..Len(rs) : rs[i].exact_match })

Cited(rs) == Cardinality({ i \in 1..Len(rs) : rs[i].references # <<>> })

Abs(x) == IF x < 0 THEN -x ELSE x

\* a rate given in thousandths is the ratio count / n to the nearest thousandth
NearestThousandth(rate, count, n) == 2 * Abs(Thousandths * count - n * rate) <= n

\* C17 (as the code has it): for n >= 1 results the metrics hold n, and
\* exact_match and citation_coverage are the ratios (matches / n, results with
\* references / n) rounded to three decimals, both within [0, 1].
C17_RatesRoundedToThreeDecimals ==
    (evalPc = "saved" /\ results # <<>>) =>
        LET m == metrics[1]
            n == Len(results)
        IN  /\ m.n = n
            /\ NearestThousandth(m.exact_match, Matches(results), n)
            /\ NearestThousandth(m.citation_coverage, Cited(results), n)
            /\ m.exact_match \in 0..Thousandths
            /\ m.citation_coverage \in 0..Thousandths

\* a run of three items, two of them matched, has returned its metrics
C17_Witness ==
    /\ evalPc = "saved"
    /\ Len(results) = 3
    /\ Matches(results) = 2
    /\ metrics[1].exact_match = 667

\* C17 (as stated): exact_match and citation_coverage are equal to the ratios
\* matches / n and results with references / n.
C17_RatesAreExactRatios ==
    (evalPc = "saved" /\ results # <<>>) =>
        /\ metrics[1].n = Len(results)
        /\ Len(results) * metrics[1].exact_match = Thousandths * Matches(results)
        /\ Len(results) * metrics[1].citation_coverage = Thousandths * Cited(results)

\* C18: the results CSV and the summary JSON of every finished run are still
\* in eval/, as that run wrote them, after any later run.
C18_EarlierOutputsKept ==
    \A i \in 1..Len(runLog) :
        /\ runLog[i].csv \in outDir.csv
        /\ runLog[i].json \in outDir.json

-----------------------------------------------------------------------------
(* The references of an evaluated item, checked under Spec.                *)

\* text.split(sep) for a one-token separator
RECURSIVE Split(_, _)
Split(text, sep) ==
    IF \A i \in 1..Len(text) : text[i] # sep THEN <<text>>
    ELSE LET i == CHOOSE i \in 1..Len(text) :
                      text[i] = sep /\ \A j \in 1..(i - 1) : text[j] # sep
         IN  <<SubSeq(text, 1, i - 1)>> \o Split(SubSeq(text, i + 1, Len(text)), sep)

\* the entries of a references text, one per line
Entries(refs) == IF refs = <<>> THEN <<>> ELSE Split(refs, "\n")

HasReferencesSection(text) == \E i \in 1..Len(text) : LowerTok(text[i]) = "referencias:"

\* refs holds one "[name, p.page]" entry for each of the first min(3, n)
\* documents, in their order
OnePerDocument(refs, docs) ==
    /\ Len(Entries(refs)) = Min(3, Len(docs))
    /\ \A j \in 1..Len(Entries(refs)) :
          LET e == Entries(refs)[j]
          IN  /\ e[1] = "[" /\ e[Len(e)] = "]" /\ e[Len(e) - 2] = ", p."
              /\ e = FormatReference(docs[j])

\* the lists of documents of up to MaxDocs elements over the pool
DocLists ==
    UNION { [1..n -> { ContextDoc(ChunkPool[i]) : i \in 1..Len(ChunkPool) }] : n \in 0..MaxDocs }

\* the cap of three entries, on lists longer than a retrieval of this model gives
CappedAtThree == \A docs \in DocLists : OnePerDocument(FormatReferencesFromDocs(docs), docs)

\* C20: in the batch evaluator an answer with no references section gets its
\* references from the retrieved documents, one "[name, p.page]" entry for
\* each of the first min(3, n) documents in retrieval order; an answer with a
\* non-empty references section keeps its text, and the references field is
\* the text extracted from it.
C20_ReferencesOfAnItem ==
    /\ CappedAtThree
    /\ \A i \in 1..Len(results) :
          LET raw == itemLog[i].raw.text
          IN  /\ ~HasReferencesSection(raw) =>
                    OnePerDocument(results[i].references, itemLog[i].ctx_docs)
              /\ (HasReferencesSection(raw) /\ ExtractReferences(raw) # <<>>) =>
                    /\ results[i].references = ExtractReferences(raw)
                    /\ results[i].answer = raw

\* a run whose first answer came without references and had two documents
\* retrieved, and whose second answer brought its own
C20_Witness ==
    /\ Len(results) = 2
    /\ ~HasReferencesSection(itemLog[1].raw.text)
    /\ Len(itemLog[1].ctx_docs) = 2
    /\ Len(Entries(results[1].references)) = 2
    /\ HasReferencesSection(itemLog[2].raw.text)
    /\ results[2].answer = itemLog[2].raw.text

-----------------------------------------------------------------------------
(* Exact match of an evaluated item, checked under Spec.                   *)

\* the gold answer, stripped and lower-cased, occurs in the text
GoldAnswerIn(gold_answer_raw, text) ==
    /\ Lower(Strip(gold_answer_raw)) # <<>>
    /\ Contains(Lower(text), Lower(Strip(gold_answer_raw)))

\* C21: exact_match of an evaluated item is true exactly when the gold item
\* has a non-empty answer that occurs, whatever the case, in the answer text
\* the provider generated; the references block the evaluator appends never
\* makes it true.
C21_ExactMatchFromProviderText ==
    \A i \in 1..Len(results) :
        results[i].exact_match <=> GoldAnswerIn(gold[i].answer, itemLog[i].raw.text)

-----------------------------------------------------------------------------
(* The course of an evaluation run, checked under Spec.                    *)

StepsOfAnItem == <<"retrieve", "assemble", "generate", "score">>

IsPrefix(a, b) == Len(a) <= Len(b) /\ SubSeq(b, 1, Len(a)) = a

Occurrences(steps, x) == Cardinality({ j \in 1..Len(steps) : steps[j] = x })

\* the items were taken one after the other in the order of the gold set,
\* each with one retrieve and at most one chat call, a scored item with all
\* four steps in order
ItemsInOrder ==
    /\ Len(itemLog) <= Len(gold)
    /\ \A i \in 1..Len(itemLog) :
          /\ IsPrefix(itemLog[i].steps, StepsOfAnItem)
          /\ Occurrences(itemLog[i].steps, "retrieve") = 1
          /\ Occurrences(itemLog[i].steps, "generate") <= 1
          /\ itemLog[i].error = "none" => itemLog[i].steps = StepsOfAnItem
          /\ i < Len(itemLog) => itemLog[i].error = "none"
    /\ \A i \in 1..Len(results) :
          /\ results[i].question = gold[i].question
          /\ itemLog[i].steps = StepsOfAnItem

\* the steps of the run follow one another: loading and the first item after
\* idle, an item only while running and appended to the log, the return of
\* evaluate_provider only after the last item, aggregation and the two files
\* only after that return, and the files together with the metrics
RunStep ==
    /\ evalPc' # evalPc =>
          \/ evalPc = "idle" /\ evalPc' = "running" /\ itemLog' = <<>> /\ results' = <<>>
          \/ evalPc = "running" /\ evalPc' = "aborted"
          \/ evalPc = "running" /\ evalPc' = "returned" /\ Len(results) = Len(gold)
          \/ evalPc = "returned" /\ evalPc' = "saved"
                /\ metrics' = <<calculate_aggregate_metrics(results)>>
    /\ itemLog' # itemLog /\ itemLog' # <<>> =>
          /\ evalPc = "running"
          /\ Len(itemLog') = Len(itemLog) + 1
          /\ SubSeq(itemLog', 1, Len(itemLog)) = itemLog
    /\ results' # results /\ results' # <<>> =>
          /\ evalPc = "running"
          /\ Len(results') = Len(results) + 1
          /\ SubSeq(results', 1, Len(results)) = results
    /\ metrics' # metrics /\ metrics' # <<>> => evalPc = "returned"
    /\ outDir' # outDir =>
          /\ evalPc = "returned" /\ evalPc' = "saved"
          /\ Cardinality(outDir'.csv) = Cardinality(outDir.csv) + 1
          /\ Cardinality(outDir'.json) = Cardinality(outDir.json) + 1

-----------------------------------------------------------------------------
(* The latencies of a comparison, checked under Spec.                      *)

IsCompare == reply.called /\ reply.path \in {"cli_compare", "web_compare"}

\* C23: in a comparison (CLI and web) the latency recorded for a provider is
\* the span of its own chat call, from just before the call to its return or
\* failure: retrieval, prompt assembly, the construction of the provider and
\* the other provider's call are outside it, and the two spans do not
\* overlap; the fastest and the slowest entry reported are those of the least
\* and of the greatest recorded latency.
C23_LatencyIsOwnChatSpan ==
    IsCompare =>
        /\ Len(reply.calls) = 2
        /\ \A i \in 1..2 :
              /\ reply.calls[i].time = reply.calls[i].chat_to - reply.calls[i].chat_from
              /\ reply.calls[i].time = ElapsedOf(reply.calls[i].outcome)
        /\ reply.calls[1].chat_from >= RetrieveTime + AssembleTime + ConstructTime
        /\ reply.calls[2].chat_from >= reply.calls[1].chat_to + ConstructTime
        /\ reply.path = "cli_compare" =>
              /\ reply.fastest \in { reply.calls[i] : i \in 1..2 }
              /\ reply.slowest \in { reply.calls[i] : i \in 1..2 }
              /\ \A i \in 1..2 : /\ reply.fastest.time <= reply.calls[i].time
                                  /\ reply.slowest.time >= reply.calls[i].time

\* a CLI comparison whose first call timed out and whose second returned
C23_Witness ==
    /\ reply.called
    /\ reply.path = "cli_compare"
    /\ reply.calls[1].outcome = "timeout" /\ reply.calls[1].raised
    /\ reply.calls[1].time = 60
    /\ reply.calls[2].time = 1
    /\ reply.fastest.label = "CHATGPT"
    /\ reply.slowest.label = "DEEPSEEK"

-----------------------------------------------------------------------------
(* The artifacts a query reads, checked under Spec.                        *)

\* C24: across the queries one process serves, the vector index and the chunk
\* table are loaded from disk once and then reused: answering a query reads
\* neither artifact file again.
C24_QueryReadsNoArtifact == reply.called => reply.read = {}

-----------------------------------------------------------------------------
(* Provider calls against a silent backend, checked under SpecCall.        *)

Outbound(p) == p.class = "DeepSeekProvider" \/ (p.class = "ChatGPTProvider" /\ p.api_key)

CallIsBounded ==
    (call.phase = "waiting" /\ Outbound(call.p)) =>
        /\ call.timeout \in 1..MaxWait
        /\ call.waited <= call.timeout

CallHasEnded ==
    /\ call.phase = "ended"
    /\ call.outcome = "timeout" =>
          call.result.kind = "raise" /\ call.result.exc = "RuntimeError"

C25_WitnessDeepSeek ==
    /\ call.phase = "ended"
    /\ call.outcome = "timeout"
    /\ call.p.class = "DeepSeekProvider"
    /\ call.waited = request_timeout
    /\ call.result.exc = "RuntimeError"

-----------------------------------------------------------------------------
(* The fragment blocks of the user prompt, checked under Spec.             *)

\* the positions of the prompt where a fragment block starts
BlockStarts(text) == { i \in 1..Len(text) : text[i] = "FRAGMENTO" }

\* the tokens of text from position a up to, not including, position b
Between(text, a, b) == SubSeq(text, a, b - 1)

HasDelimiterLine(part) == \E j \in 1..Len(part) : part[j] = Delimiter

\* C26: for a non-empty document list d1..dn the user prompt holds exactly n
\* fragment blocks numbered 1..n in input order, the i-th with the content of
\* di, and every two consecutive blocks are separated by the delimiter line.
C26_BlocksNumberedAndDelimited ==
    (reply.called /\ reply.docs # <<>>) =>
        LET starts == BlockStarts(reply.prompt)
            n == Len(reply.docs)
            nth(i) == CHOOSE a \in starts : Cardinality({ b \in starts : b <= a }) = i
        IN  /\ Cardinality(starts) = n
            /\ \A i \in 1..n :
                  /\ reply.prompt[nth(i) + 2] = ToString(i)
                  /\ Contains(Between(reply.prompt, nth(i),
                                       IF i < n THEN nth(i + 1) ELSE Len(reply.prompt) + 1),
                               <<"\"">> \o reply.docs[i].content \o <<"\"">>)
            /\ \A i \in 1..(n - 1) :
                  HasDelimiterLine(Between(reply.prompt, nth(i), nth(i + 1)))

-----------------------------------------------------------------------------
(* The functions of rag/prompts.py, checked under SpecPrompt.              *)

\* the tokens of a path after its last "/"
RECURSIVE AfterLastSlash(_)
AfterLastSlash(path) ==
    IF \E i \in 1..Len(path) : path[i] = "/"
    THEN AfterLastSlash(Tail(path)) ELSE path

IsExtension(t) == t \in {".pdf", ".txt"}

\* a path without its directories and without its extension
BareName(path) ==
    LET base == AfterLastSlash(path)
    IN  IF base # <<>> /\ IsExtension(base[Len(base)])
        THEN SubSeq(base, 1, Len(base) - 1) ELSE base

\* the text of the "Fuente:" line of the block that starts at position a
RECURSIVE UpToNewline(_)
UpToNewline(text) ==
    IF text = <<>> \/ Head(text) = "\n" THEN <<>>
    ELSE <<Head(text)>> \o UpToNewline(Tail(text))

SourceLine(text, a) == UpToNewline(SubSeq(text, a + 7, Len(text)))

IsDirectPrompt == reply.called /\ reply.path = "build_user_prompt" /\ reply.docs # <<>>

\* C27: the source name build_user_prompt renders for a document is the
\* document's bare name, every directory prefix and the file extension
\* removed, whatever the directory and the extension are.
C27_SourceIsBareName ==
    IsDirectPrompt =>
        LET starts == BlockStarts(reply.prompt)
            nth(i) == CHOOSE a \in starts : Cardinality({ b \in starts : b <= a }) = i
        IN  \A i \in 1..Len(reply.docs) :
              SourceLine(reply.prompt, nth(i)) = BareName(reply.docs[i].source)

\* the categories in the order the specification gives them
Categories == <<"matricula", "notas", "financiero", "titulo">>

Occurs(category, query) == AnyWordIn(keywords[category], Lower(query))

DetectedFirstCategory ==
    (reply.called /\ reply.path = "detect_query_type") =>
        /\ reply.query_type = "general" <=>
              \A c \in 1..Len(Categories) : ~Occurs(Categories[c], reply.query)
        /\ \A c \in 1..Len(Categories) :
              reply.query_type = Categories[c] <=>
                  /\ Occurs(Categories[c], reply.query)
                  /\ \A b \in 1..(c - 1) : ~Occurs(Categories[b], reply.query)

TopicBlockAppended ==
    (reply.called /\ reply.path = "get_system_prompt") =>
        IF reply.query_type \in { Categories[c] : c \in 1..Len(Categories) }
        THEN reply.system = SYSTEM_PROMPT \o <<"\n", "\n", "ENFOQUE ESPECIALIZADO:", "\n">>
                                          \o SPECIALIZED_PROMPTS[reply.query_type]
        ELSE reply.system = SYSTEM_PROMPT

\* C28: detect_query_type returns the first category, in the order
\* matricula, notas, financiero, titulo, one of whose keywords occurs in the
\* lower-cased query, and "general" exactly when no keyword occurs;
\* get_system_prompt appends the topic block for those four categories and
\* returns the base prompt unchanged for any other value.
C28_FirstCategoryInFixedOrder == DetectedFirstCategory /\ TopicBlockAppended

\* a query that names a title before a mark is classified as notas
C28_Witness ==
    /\ reply.called
    /\ reply.path = "detect_query_type"
    /\ reply.query = <<"titulo", " ", "y", " ", "nota">>
    /\ reply.query_type = "notas"

-----------------------------------------------------------------------------
(* The messages of every answer path, checked under Spec.                  *)

SystemThenUser(messages) ==
    /\ Len(messages) = 2
    /\ messages[1].role = "system"
    /\ messages[1].content = SYSTEM_PROMPT
    /\ messages[2].role = "user"

\* C29: in every answer path (web /ask, CLI chat and compare, the batch
\* evaluator) the system message handed to the provider is the base system
\* prompt, the same for every query whatever category the query falls in, and
\* messages is the two-element sequence system, user.
C29_SystemPromptIsStatic ==
    /\ reply.called => SystemThenUser(reply.messages) /\ reply.messages[2].content = reply.prompt
    /\ \A i \in 1..Len(itemLog) : itemLog[i].called => SystemThenUser(itemLog[i].messages)

\* a web query of the category matricula answered under the base prompt
C29_Witness ==
    /\ reply.called
    /\ reply.path = "web_single"
    /\ detect_query_type(reply.query) = "matricula"
    /\ reply.messages[1].content = get_system_prompt("general")
    /\ reply.calls # <<>>

C29_WitnessBatch ==
    /\ Len(itemLog) >= 1
    /\ itemLog[1].called
    /\ detect_query_type(gold[1].question) # "general"
    /\ itemLog[1].messages[1].content = SYSTEM_PROMPT

-----------------------------------------------------------------------------
(* The provider behind a key, checked under Spec.                          *)

ProviderClasses == {"ChatGPTProvider", "DeepSeekProvider", "MockProvider"}

\* the class a key yields in the environment env
ClassBehind(key) ==
    IF Construct(ClassOfKey(key), env).error = "none" THEN ClassOfKey(key) ELSE "MockProvider"

IsMockAnswer(c, messages) ==
    /\ c.class = "MockProvider"
    /\ ~c.raised
    /\ c.answer = MockChat(messages)
    /\ c.time = ElapsedOf("text_plain")

\* C30: _instantiate_provider never raises and always returns a provider: it
\* returns a MockProvider when the constructor of the requested backend
\* fails (DeepSeek without an API key) or the key is unknown; so in a
\* comparison the entry labelled DEEPSEEK (or CHATGPT) can carry the mock's
\* canned answer and latency, not an error or a "disabled" marker.
C30_MockBehindFailedBackend ==
    /\ \A key \in WebKeys, e \in Environments :
          InstantiateProvider(key, e).class \in ProviderClasses
    /\ (reply.called /\ reply.path = "web_single") =>
          /\ reply.calls[1].class = ClassBehind(reply.key)
          /\ reply.key \notin {"chatgpt", "deepseek"} => reply.calls[1].class = "MockProvider"
    /\ (process.kind = "cli" /\ provider # NoProvider) => provider.class \in ProviderClasses
    /\ IsCompare =>
          /\ reply.calls[1].label = "DEEPSEEK" /\ reply.calls[1].class = ClassBehind("deepseek")
          /\ reply.calls[2].label = "CHATGPT" /\ reply.calls[2].class = ClassBehind("chatgpt")
          /\ ~env.deepseek_key => IsMockAnswer(reply.calls[1], reply.messages)

\* a comparison without DEEPSEEK_API_KEY: the DEEPSEEK entry is the mock's
C30_Witness ==
    /\ IsCompare
    /\ ~env.deepseek_key
    /\ reply.calls[1].label = "DEEPSEEK"
    /\ reply.calls[1].class = "MockProvider"
    /\ Contains(reply.calls[1].answer.text, <<"Referencias:">>)
    /\ ~Contains(reply.calls[1].answer.text, <<"[Error proveedor]">>)

C30_WitnessUnknownKey ==
    /\ reply.called
    /\ reply.path = "web_single"
    /\ reply.key = "otro"
    /\ reply.calls[1].class = "MockProvider"

====
